---- MODULE Spec2Model ----
(***************************************************************************)
(* A model of gpx_helper's map-animation pipeline: the frame scheduler     *)
(* (_resolve_effective_fps, prepare_animation_data, resample_route,        *)
(* prepare_animation_series), the map-animate request handler              *)
(* (animate_gpx_route) and the compositor/encoder loop (create_animation). *)
(*                                                                         *)
(* Python floats are modelled as exact rationals <<num, den>> in lowest    *)
(* terms with den > 0.  On the bounded inputs used here the binary64       *)
(* results of the scheduler agree with the exact ones (frame counts and   *)
(* frame indices were compared for routes of up to 8 points and up to 400  *)
(* frames).                                                                *)
(***************************************************************************)
EXTENDS Integers, Sequences, FiniteSets, TLC

VARIABLES
    DEFAULT_MAX_FRAMES,  \* map_animator.py:85, read from MAP_ANIM_MAX_FRAMES at import
    call,                \* a direct call of a scheduler function: [fn, arguments]
    ret,                 \* what that call returned
    pc,                  \* position of the map-animate request in its handler
    form,                \* the form fields the handler has read so far
    locals,              \* the handler's locals: width_px, height_px, tile source, lats, lons
    sched,               \* what prepare_animation_series returned to the handler
    anim,                \* create_animation's loop state: frame, last_idx, trail, exception in flight
    ffmpeg_proc,         \* the encoder subprocess: opened, stdin, exit status
    log,                 \* the render's effects in order: tile fetch, open, draw, write, close, wait
    response,            \* the HTTP response of the request
    tile_cache,          \* _download_tile's lru_cache, least recently used first
    tile_requests        \* the calls of _download_tile so far: url, cache or network, outcome

sched_vars == <<call, ret>>
tile_vars == <<tile_cache, tile_requests>>
pipe_vars == <<pc, form, locals, sched, anim, ffmpeg_proc, log, response>>
vars == <<DEFAULT_MAX_FRAMES, call, ret, pc, form, locals, sched, anim,
          ffmpeg_proc, log, response, tile_cache, tile_requests>>

\* ---------------------------------------------------------------- bounds
MaxPoints == 4
MaxCoord == 2
MaxTarget == 5
MaxDurQ == 8
MaxFps == 4
MaxBudget == 4
MaxFormDurH == 3
MaxFormFps == 2
MaxExitStatus == 1
MaxZoom == 2
MaxSizeExp == 2
MaxResLen == 4
MaxCachedTiles == 3
MaxRenders == 3
MaxTrackPoints == 3
MaxTime == 3
\* DEFAULT_MAX_FRAMES = _read_int_env("MAP_ANIM_MAX_FRAMES", 2400)
BuiltinMaxFrames == 2400

\* ------------------------------------------------------- exact rationals
Abs(i) == IF i < 0 THEN -i ELSE i

RECURSIVE GCD(_, _)
GCD(a, b) == IF b = 0 THEN a ELSE GCD(b, a % b)

\* the rational n/d (d # 0) in lowest terms with a positive denominator
Rat(n, d) ==
    LET g == GCD(Abs(n), Abs(d))
        s == IF d < 0 THEN -1 ELSE 1
    IN  <<(s * n) \div g, (s * d) \div g>>

FromInt(i) == <<i, 1>>
RLeq(a, b) == a[1] * b[2] <= b[1] * a[2]
RLt(a, b) == a[1] * b[2] < b[1] * a[2]
RAdd(a, b) == Rat(a[1] * b[2] + b[1] * a[2], a[2] * b[2])
RSub(a, b) == Rat(a[1] * b[2] - b[1] * a[2], a[2] * b[2])
\* common factors are cancelled before multiplying, to keep the products small
RMul(a, b) ==
    LET g == GCD(Abs(a[1]), Abs(b[2]))
        h == GCD(Abs(b[1]), Abs(a[2]))
    IN  Rat((a[1] \div g) * (b[1] \div h), (a[2] \div h) * (b[2] \div g))
RDiv(a, b) ==
    IF b[1] = 0 THEN Rat(a[1] * b[2], a[2] * b[1])
    ELSE RMul(a, <<b[2], b[1]>>)
RMax(a, b) == IF RLt(a, b) THEN b ELSE a
\* Python min(a, b): the first argument unless the second is strictly smaller
RMin(a, b) == IF RLt(b, a) THEN b ELSE a

\* Python int(float): truncation toward zero
Trunc(a) == IF a[1] >= 0 THEN a[1] \div a[2] ELSE -((-a[1]) \div a[2])

\* floor of a rational (\div rounds toward minus infinity in TLA+)
Floor(a) == a[1] \div a[2]

\* Python round(float): to the nearest integer, ties to the even one
PyRound(a) ==
    LET f == Floor(a)
        twice == 2 * (a[1] - f * a[2])   \* 2 * fractional part * den
    IN  IF twice < a[2] THEN f
        ELSE IF twice > a[2] THEN f + 1
        ELSE IF f % 2 = 0 THEN f ELSE f + 1

\* round to nearest, ties away from zero (what "round" means on paper)
RoundNearest(a) ==
    IF a[1] >= 0 THEN (2 * a[1] + a[2]) \div (2 * a[2])
    ELSE -((2 * (-a[1]) + a[2]) \div (2 * a[2]))

\* a list comprehension, evaluated once into a list
Force(seq) == seq \o <<>>

Max2(a, b) == IF a >= b THEN a ELSE b
Min2(a, b) == IF a <= b THEN a ELSE b

\* ------------------------------------------------------ frame scheduler
\* map_animator.py:151-155
resolve_effective_fps_uncapped(duration_sec, fps) == fps

_resolve_effective_fps(duration_sec, fps) ==
    IF duration_sec[1] <= 0 \/ DEFAULT_MAX_FRAMES <= 0
    THEN fps
    ELSE LET max_fps == RDiv(FromInt(DEFAULT_MAX_FRAMES), duration_sec)
         IN  RMin(fps, max_fps)

\* map_animator.py:445-447: total_frames = int(duration_sec * fps), at least 2
total_frames_rounded(duration_sec, fps) ==
    Max2(RoundNearest(RMul(duration_sec, fps)), 2)

total_frames_of(duration_sec, fps) ==
    Max2(Trunc(RMul(duration_sec, fps)), 2)

\* map_animator.py:450-455: the route index shown by one frame
frame_index_off_by_one(frame, total_frames, n_points) ==
    LET idx == PyRound(Rat(frame * (n_points - 1), total_frames))
    IN  Max2(0, Min2(n_points - 1, idx))

frame_index(frame, total_frames, n_points) ==
    LET idx_float == Rat(frame * (n_points - 1), total_frames - 1)
        idx == PyRound(idx_float)
    IN  Max2(0, Min2(n_points - 1, idx))

\* map_animator.py:432-457
prepare_animation_data(xs, ys, duration_sec, fps) ==
    LET n_points == Len(xs)
        total_frames == total_frames_of(duration_sec, fps)
    IN  IF n_points < 2
        THEN [raised |-> "ValueError: Need at least 2 points to animate"]
        ELSE [raised |-> "none",
              frame_indices |->
                  Force([f \in 1..total_frames |->
                      frame_index(f - 1, total_frames, n_points)]),
              total_frames |-> total_frames,
              fps |-> fps]

\* ------------------------------------------------------- route resampler
\* math.hypot / np.hypot, on deltas whose length is rational (the routes
\* modelled move parallel to an axis, so every segment length is exact)
hypot(dx, dy) ==
    LET a == Abs(dx[1] * dy[2])
        b == Abs(dy[1] * dx[2])
        r == CHOOSE r \in 0..(a + b) : r * r = a * a + b * b
    IN  Rat(r, dx[2] * dy[2])

RECURSIVE RSum(_, _)
RSum(seq, k) == IF k = 0 THEN FromInt(0) ELSE RAdd(RSum(seq, k - 1), seq[k])

\* np.concatenate(([0.0], np.cumsum(deltas)))
cumulative_dist(xs, ys) ==
    LET n == Len(xs)
        deltas == Force([i \in 1..(n - 1) |->
                      hypot(RSub(xs[i + 1], xs[i]), RSub(ys[i + 1], ys[i]))])
    IN  Force([i \in 1..n |-> RSum(deltas, i - 1)])

\* np.unique(cumulative, return_index=True)[1]: the index of the first
\* occurrence of each distinct value, in increasing order of value
\* (cumulative is non-decreasing, so that is increasing order of index)
unique_index(cumulative) ==
    LET First(i) == \A j \in 1..(i - 1) : cumulative[j] # cumulative[i]
    IN  SelectSeq([i \in 1..Len(cumulative) |-> i], First)

\* np.interp(x, xp, fp) for one x: piecewise linear, clamped at both ends
np_interp(x, xp, fp) ==
    LET m == Len(xp)
    IN  IF RLeq(xp[m], x) THEN fp[m]
        ELSE IF RLt(x, xp[1]) THEN fp[1]
        ELSE LET j == CHOOSE j \in 1..(m - 1) :
                          RLeq(xp[j], x) /\ RLt(x, xp[j + 1])
                 slope == RDiv(RSub(fp[j + 1], fp[j]), RSub(xp[j + 1], xp[j]))
             IN  RAdd(RMul(slope, RSub(x, xp[j])), fp[j])

\* np.linspace(0.0, total_dist, target_points)[k - 1]
linspace_open(total_dist, target_points, k) ==
    RMul(total_dist, Rat(k - 1, target_points))

linspace(total_dist, target_points, k) ==
    RMul(total_dist, Rat(k - 1, target_points - 1))

\* the route is never thinned out
resample_route_unchanged(xs, ys, target_points) == <<xs, ys>>

\* map_animator.py:460-482
resample_route(xs, ys, target_points) ==
    LET n_points == Len(xs)
    IN  IF n_points <= target_points \/ n_points < 2 \/ target_points < 2
        THEN <<xs, ys>>
        ELSE LET cumulative == cumulative_dist(xs, ys)
                 unique_idx == unique_index(cumulative)
                 unique_dist == Force([i \in 1..Len(unique_idx) |->
                                    cumulative[unique_idx[i]]])
                 total_dist == unique_dist[Len(unique_dist)]
                 fx == Force([i \in 1..Len(unique_idx) |-> xs[unique_idx[i]]])
                 fy == Force([i \in 1..Len(unique_idx) |-> ys[unique_idx[i]]])
             IN  IF total_dist = FromInt(0)
                 THEN <<Force([k \in 1..target_points |-> xs[1]]),
                        Force([k \in 1..target_points |-> ys[1]])>>
                 ELSE <<Force([k \in 1..target_points |->
                            np_interp(linspace(total_dist, target_points, k),
                                      unique_dist, fx)]),
                        Force([k \in 1..target_points |->
                            np_interp(linspace(total_dist, target_points, k),
                                      unique_dist, fy)])>>

\* map_animator.py:492: total_frames = max(int(duration_sec * effective_fps), 2)
series_total_frames_rounded(duration_sec, effective_fps) ==
    Max2(PyRound(RMul(duration_sec, effective_fps)), 2)

series_total_frames(duration_sec, effective_fps) ==
    Max2(Trunc(RMul(duration_sec, effective_fps)), 2)

\* map_animator.py:485-498
prepare_animation_series(xs, ys, duration_sec, fps) ==
    LET effective_fps == _resolve_effective_fps(duration_sec, fps)
        total_frames == series_total_frames(duration_sec, effective_fps)
        target_points == Min2(Len(xs), total_frames)
        resampled == resample_route(xs, ys, target_points)
        data == prepare_animation_data(resampled[1], resampled[2],
                                       duration_sec, effective_fps)
    IN  IF data.raised # "none" THEN data
        ELSE [raised |-> "none",
              xs |-> resampled[1],
              ys |-> resampled[2],
              frame_indices |-> data.frame_indices,
              total_frames |-> data.total_frames,
              fps |-> data.fps]

\* ---------------------------------------------- inputs of the scheduler
\* A route is a pair of coordinate lists <<xs, ys>>.  Its points lie on a
\* small grid and consecutive points differ in at most one coordinate.
Grid == (0..MaxCoord) \X (0..1)

AxisAligned(pts) ==
    \A i \in 1..(Len(pts) - 1) :
        pts[i][1] = pts[i + 1][1] \/ pts[i][2] = pts[i + 1][2]

RouteOf(pts) ==
    <<[i \in 1..Len(pts) |-> FromInt(pts[i][1])],
      [i \in 1..Len(pts) |-> FromInt(pts[i][2])]>>

Routes ==
    {RouteOf(pts) :
        pts \in {q \in UNION {[1..n -> Grid] : n \in 0..MaxPoints} :
                    AxisAligned(q)}}

\* routes that run along the x axis without turning back (repeated points
\* and routes of zero length included)
AxisRoutes ==
    {r \in Routes :
        /\ \A i \in 1..Len(r[2]) : r[2][i] = FromInt(0)
        /\ \A i \in 1..(Len(r[1]) - 1) : RLeq(r[1][i], r[1][i + 1])}

\* the straight route 0, 1, ..., n - 1 of the unit tests
LineRoute(n) == <<[i \in 1..n |-> FromInt(i - 1)], [i \in 1..n |-> FromInt(i - 1)]>>

\* the straight route 0, 1, ..., n - 1 along the x axis
AxisLine(n) == <<[i \in 1..n |-> FromInt(i - 1)], [i \in 1..n |-> FromInt(0)]>>

\* durations in quarter seconds
Durations == {Rat(n, 4) : n \in (-1)..MaxDurQ}
\* requested frame rates
FpsValues == {FromInt(f) : f \in (-1)..MaxFps}
\* values of MAP_ANIM_MAX_FRAMES: any integer parses (lines 73-85)
Budgets == ((-1)..MaxBudget) \cup {20, BuiltinMaxFrames}

FpsCalls ==
    {[fn |-> "_resolve_effective_fps", duration_sec |-> d, fps |-> f] :
        d \in Durations, f \in FpsValues}

DataCalls ==
    {[fn |-> "prepare_animation_data", xs |-> LineRoute(n)[1],
      ys |-> LineRoute(n)[2], duration_sec |-> d, fps |-> f] :
        n \in 0..MaxPoints, d \in Durations, f \in FpsValues}

ResampleCalls ==
    {[fn |-> "resample_route", xs |-> r[1], ys |-> r[2], target_points |-> n] :
        r \in Routes, n \in 0..MaxTarget}

SeriesCalls ==
    {[fn |-> "prepare_animation_series", xs |-> r[1], ys |-> r[2],
      duration_sec |-> d, fps |-> f] :
        r \in AxisRoutes, d \in Durations, f \in FpsValues}

\* test_prepare_animation_series_caps_fps: 3 points, 10 s at 30 fps
ExampleCalls ==
    {[fn |-> "_resolve_effective_fps", duration_sec |-> FromInt(10),
      fps |-> FromInt(30)],
     [fn |-> "prepare_animation_series", xs |-> AxisLine(3)[1],
      ys |-> AxisLine(3)[2], duration_sec |-> FromInt(10),
      fps |-> FromInt(30)]}

NoCall == [fn |-> "none"]
NotReturned == [done |-> FALSE]

ReadsBudget(c) == c.fn \in {"_resolve_effective_fps", "prepare_animation_series"}

NoExc == [kind |-> "none", detail |-> "", args |-> <<>>]
NoProcess == [opens |-> 0, stdin |-> "none", buffered |-> FALSE, closes |-> 0,
              waits |-> 0, exited |-> FALSE, exit_status |-> 0,
              return_code |-> 0]
NoAnim == [frame |-> 0, last_idx |-> 0, trail |-> <<>>, exc |-> NoExc]
NoSchedule == [raised |-> "unset"]
NoResponse == [status |-> 0, detail |-> ""]

\* no request has been received (the state of the handler's variables while
\* the scheduler functions are called directly)
PipeIdle ==
    /\ pc = "idle"
    /\ form = <<>>
    /\ locals = <<>>
    /\ sched = NoSchedule
    /\ anim = NoAnim
    /\ ffmpeg_proc = NoProcess
    /\ log = <<>>
    /\ response = NoResponse
    /\ tile_cache = <<>>
    /\ tile_requests = <<>>

\* ------------------------------------------- scheduler specification
InitSchedule ==
    /\ call \in FpsCalls \cup DataCalls \cup ResampleCalls \cup SeriesCalls
                \cup ExampleCalls
    /\ DEFAULT_MAX_FRAMES \in Budgets
    /\ ReadsBudget(call) \/ DEFAULT_MAX_FRAMES = BuiltinMaxFrames
    /\ ret = NotReturned
    /\ PipeIdle

Call_resolve_effective_fps ==
    /\ call.fn = "_resolve_effective_fps"
    /\ ~ret.done
    /\ ret' = [done |-> TRUE,
               value |-> _resolve_effective_fps(call.duration_sec, call.fps)]
    /\ UNCHANGED <<DEFAULT_MAX_FRAMES, call>>
    /\ UNCHANGED pipe_vars
    /\ UNCHANGED tile_vars

Call_prepare_animation_data ==
    /\ call.fn = "prepare_animation_data"
    /\ ~ret.done
    /\ ret' = [done |-> TRUE,
               value |-> prepare_animation_data(call.xs, call.ys,
                                                call.duration_sec, call.fps)]
    /\ UNCHANGED <<DEFAULT_MAX_FRAMES, call>>
    /\ UNCHANGED pipe_vars
    /\ UNCHANGED tile_vars

Call_resample_route ==
    /\ call.fn = "resample_route"
    /\ ~ret.done
    /\ ret' = [done |-> TRUE,
               value |-> resample_route(call.xs, call.ys, call.target_points)]
    /\ UNCHANGED <<DEFAULT_MAX_FRAMES, call>>
    /\ UNCHANGED pipe_vars
    /\ UNCHANGED tile_vars

Call_prepare_animation_series ==
    /\ call.fn = "prepare_animation_series"
    /\ ~ret.done
    /\ ret' = [done |-> TRUE,
               value |-> prepare_animation_series(call.xs, call.ys,
                                                  call.duration_sec, call.fps)]
    /\ UNCHANGED <<DEFAULT_MAX_FRAMES, call>>
    /\ UNCHANGED pipe_vars
    /\ UNCHANGED tile_vars

NextSchedule ==
    \/ Call_resolve_effective_fps
    \/ Call_prepare_animation_data
    \/ Call_resample_route
    \/ Call_prepare_animation_series

SpecSchedule == InitSchedule /\ [][NextSchedule]_vars

\* ----------------------------------------------------------- geodesy
\* Longitudes and latitudes are rationals in degrees.
RAbs(a) == IF a[1] < 0 THEN <<-a[1], a[2]>> ELSE a

RECURSIVE Pow2(_)
Pow2(k) == IF k = 0 THEN 1 ELSE 2 * Pow2(k - 1)

\* map_animator.py:242 at zoom 0, (1 - log(tan(lat) + 1 / cos(lat)) / pi) / 2 * 256
\* for the latitudes modelled: the binary64 result to 1/100 pixel.  At 90
\* degrees tan and 1/cos are both 1.6e16 and the row is far above the world;
\* at -90 degrees their sum is 0.0 and math.log raises.
MercatorRows ==
    <<[lat |-> FromInt(90),       row |-> Rat(-142128, 100)],
      [lat |-> Rat(8902, 100),    row |-> FromInt(-66)],
      [lat |-> Rat(4704, 100),    row |-> FromInt(90)],
      [lat |-> FromInt(0),        row |-> FromInt(128)],
      [lat |-> Rat(-4704, 100),   row |-> FromInt(166)]>>

SouthPole == FromInt(-90)

Latitudes == {MercatorRows[k].lat : k \in DOMAIN MercatorRows} \cup {SouthPole}

mercator_row(lat) ==
    MercatorRows[CHOOSE k \in DOMAIN MercatorRows : MercatorRows[k].lat = lat].row

\* map_animator.py:235-243
lonlat_to_pixel(lon, lat, zoom) ==
    LET n == Pow2(zoom)
    IN  IF lat = SouthPole
        THEN [raised |-> "ValueError: math domain error"]
        ELSE [raised |-> "none",
              x |-> RMul(RDiv(RAdd(lon, FromInt(180)), FromInt(360)),
                         FromInt(n * 256)),
              y |-> RMul(mercator_row(lat), FromInt(n))]

\* map_animator.py:217-221 in units of R * pi / 180: a latitude whose row at
\* zoom 0 is r has y = 180 * (1 - 2 * r / 256); MAX_MERCATOR_LAT is the
\* latitude of row 0 and -MAX_MERCATOR_LAT that of row 256, and the clamp of
\* the latitude is the clamp of the row to 0..256
mercator_y_of_row(row) ==
    LET clamped == RMax(FromInt(0), RMin(row, FromInt(256)))
    IN  RMul(FromInt(180),
             RSub(FromInt(1), RDiv(RMul(FromInt(2), clamped), FromInt(256))))

mercator_y(lat) ==
    IF lat = SouthPole THEN FromInt(-180)
    ELSE mercator_y_of_row(mercator_row(lat))

span_exceeds(span, size_px) == RLeq(FromInt(size_px), span)

\* map_animator.py:292: abs(...) <= width_px, abs(...) <= height_px
span_fits(span, size_px) == RLeq(span, FromInt(size_px))

\* map_animator.py:276-294: the loop from `zoom` down to 0
RECURSIVE choose_zoom_from(_, _, _, _, _, _, _)
choose_zoom_from(zoom, min_lat, max_lat, min_lon, max_lon, width_px, height_px) ==
    IF zoom < 0 THEN [raised |-> "none", zoom |-> 0]
    ELSE LET nw == lonlat_to_pixel(min_lon, max_lat, zoom)
             se == lonlat_to_pixel(max_lon, min_lat, zoom)
         IN  IF nw.raised # "none" THEN nw
             ELSE IF se.raised # "none" THEN se
             ELSE IF /\ span_fits(RAbs(RSub(se.x, nw.x)), width_px)
                     /\ span_fits(RAbs(RSub(se.y, nw.y)), height_px)
             THEN [raised |-> "none", zoom |-> zoom]
             ELSE choose_zoom_from(zoom - 1, min_lat, max_lat, min_lon,
                                   max_lon, width_px, height_px)

choose_zoom_for_bounds(min_lat, max_lat, min_lon, max_lon, width_px, height_px, max_zoom) ==
    choose_zoom_from(max_zoom, min_lat, max_lat, min_lon, max_lon, width_px,
                     height_px)

\* map_animator.py:290-291 and 239-242: the latitudes choose_zoom_for_bounds
\* hands to lonlat_to_pixel, which takes tan and log of them as they are
log_tan_latitudes(min_lat, max_lat) == {max_lat, min_lat}

\* the bounding boxes, canvas sizes and zoom limits choose_zoom_for_bounds
\* is called with
Longitudes == {FromInt(-180), FromInt(0), FromInt(90)}

CanvasSizes == {1} \cup {32 * Pow2(k) : k \in 0..MaxSizeExp}

\* the arguments of one call
ZoomArgs(min_lat, max_lat, min_lon, max_lon, width_px, height_px, max_zoom) ==
    [min_lat |-> min_lat, max_lat |-> max_lat, min_lon |-> min_lon,
     max_lon |-> max_lon, width_px |-> width_px, height_px |-> height_px,
     max_zoom |-> max_zoom]

\* the arguments that differ from `a` in at most one of width_px, height_px,
\* max_lon and min_lat
OneArgumentApart(a) ==
    {a} \cup {[a EXCEPT !.width_px = w] : w \in CanvasSizes}
        \cup {[a EXCEPT !.height_px = h] : h \in CanvasSizes}
        \cup {[a EXCEPT !.max_lon = d] : d \in Longitudes}
        \cup {[a EXCEPT !.min_lat = l] : l \in Latitudes}

choose_zoom(a) ==
    choose_zoom_for_bounds(a.min_lat, a.max_lat, a.min_lon, a.max_lon,
                           a.width_px, a.height_px, a.max_zoom)

\* a call for a bounding box, and a second call one argument apart
InitZoom ==
    /\ \E min_lat \in Latitudes, max_lat \in Latitudes,
          min_lon \in Longitudes, max_lon \in Longitudes,
          width_px \in CanvasSizes, height_px \in CanvasSizes,
          max_zoom \in 0..MaxZoom :
        /\ RLeq(min_lat, max_lat)
        /\ RLeq(min_lon, max_lon)
        /\ LET first == ZoomArgs(min_lat, max_lat, min_lon, max_lon,
                                 width_px, height_px, max_zoom)
           IN  \E second \in OneArgumentApart(first) :
                   call = [fn |-> "choose_zoom_for_bounds", first |-> first,
                           second |-> second]
    /\ DEFAULT_MAX_FRAMES = BuiltinMaxFrames
    /\ ret = NotReturned
    /\ PipeIdle

Call_choose_zoom_for_bounds ==
    /\ call.fn = "choose_zoom_for_bounds"
    /\ ~ret.done
    /\ ret' = [done |-> TRUE,
               value |-> <<choose_zoom(call.first), choose_zoom(call.second)>>]
    /\ UNCHANGED <<DEFAULT_MAX_FRAMES, call>>
    /\ UNCHANGED pipe_vars
    /\ UNCHANGED tile_vars

NextZoom == Call_choose_zoom_for_bounds

SpecZoom == InitZoom /\ [][NextZoom]_vars

\* ------------------------------------------------------ basemap builder
TILE_SIZE == 256
DEFAULT_MAX_ZOOM == 18

Clamp(lo, v, hi) == Max2(lo, Min2(v, hi))

\* map_animator.py:297-353, with max_zoom left at its default
_compute_tile_fetch_window(min_lat, max_lat, min_lon, max_lon, width_px, height_px) ==
    LET chosen == choose_zoom_for_bounds(min_lat, max_lat, min_lon, max_lon,
                                         width_px, height_px, DEFAULT_MAX_ZOOM)
    IN  IF chosen.raised # "none" THEN chosen
        ELSE
        LET zoom == chosen.zoom
            nw == lonlat_to_pixel(min_lon, max_lat, zoom)
            se == lonlat_to_pixel(max_lon, min_lat, zoom)
            cx == RDiv(RAdd(nw.x, se.x), FromInt(2))
            cy == RDiv(RAdd(se.y, nw.y), FromInt(2))
            left == PyRound(RSub(cx, Rat(width_px, 2)))
            top == PyRound(RSub(cy, Rat(height_px, 2)))
            right == left + width_px
            bottom == top + height_px
            world_px == TILE_SIZE * Pow2(zoom)
            fetch_left == Max2(0, left)
            fetch_top == Max2(0, top)
            fetch_right == Min2(world_px, right)
            fetch_bottom == Min2(world_px, bottom)
            max_tile_index == Pow2(zoom) - 1
        IN  IF fetch_right <= fetch_left \/ fetch_bottom <= fetch_top
            THEN [raised |->
                     "RuntimeError: Computed basemap window does not intersect world bounds."]
            ELSE [raised |-> "none",
                  zoom |-> zoom,
                  tile_bounds |->
                      [min_x_tile |-> Clamp(0, fetch_left \div TILE_SIZE,
                                            max_tile_index),
                       max_x_tile |-> Clamp(0, (fetch_right - 1) \div TILE_SIZE,
                                            max_tile_index),
                       min_y_tile |-> Clamp(0, fetch_top \div TILE_SIZE,
                                            max_tile_index),
                       max_y_tile |-> Clamp(0, (fetch_bottom - 1) \div TILE_SIZE,
                                            max_tile_index)],
                  desired_window |-> [left |-> left, top |-> top,
                                      right |-> right, bottom |-> bottom],
                  fetch_window |-> [left |-> fetch_left, top |-> fetch_top,
                                    right |-> fetch_right,
                                    bottom |-> fetch_bottom]]

\* An image is its size and the layers painted on it, the first one covering
\* it whole: a layer shows, in `box` (right and bottom excluded), the picture
\* `src` whose pixel (0, 0) lies at `origin`.
Box(left, top, right, bottom) ==
    [left |-> left, top |-> top, right |-> right, bottom |-> bottom]

BoxMeet(a, b) ==
    Box(Max2(a.left, b.left), Max2(a.top, b.top),
        Min2(a.right, b.right), Min2(a.bottom, b.bottom))

BoxShift(a, dx, dy) ==
    Box(a.left + dx, a.top + dy, a.right + dx, a.bottom + dy)

BoxEmpty(a) == a.right <= a.left \/ a.bottom <= a.top

PLACEHOLDER == [kind |-> "colour", x |-> 230, y |-> 230, zoom |-> 230]
BLACK == [kind |-> "colour", x |-> 0, y |-> 0, zoom |-> 0]
TilePicture(zoom, x, y) == [kind |-> "tile", x |-> x, y |-> y, zoom |-> zoom]

\* PIL.Image.new(mode, size, color)
ImageNew(width, height, color) ==
    [size |-> <<width, height>>,
     layers |-> <<[box |-> Box(0, 0, width, height), src |-> color,
                   origin |-> <<0, 0>>]>>]

\* the layers of `layers` moved by (dx, dy) and cut to `frame`
MovedInto(layers, dx, dy, frame) ==
    LET moved == [k \in DOMAIN layers |->
                     [box |-> BoxMeet(BoxShift(layers[k].box, dx, dy), frame),
                      src |-> layers[k].src,
                      origin |-> <<layers[k].origin[1] + dx,
                                   layers[k].origin[2] + dy>>]]
        Visible(l) == ~BoxEmpty(l.box)
    IN  SelectSeq(moved, Visible)

\* the pasted image lands in the top left corner
paste_at_origin(image, im, x, y) ==
    [image EXCEPT !.layers =
        @ \o MovedInto(im.layers, 0, 0,
                       Box(0, 0, image.size[1], image.size[2]))]

\* Image.paste(im, (x, y))
ImagePaste(image, im, x, y) ==
    [image EXCEPT !.layers =
        @ \o MovedInto(im.layers, x, y,
                       Box(0, 0, image.size[1], image.size[2]))]

\* Image.crop(box): what lies outside the image is black
ImageCrop(image, box) ==
    LET width == box.right - box.left
        height == box.bottom - box.top
    IN  [size |-> <<width, height>>,
         layers |-> ImageNew(width, height, BLACK).layers
                    \o MovedInto(image.layers, -box.left, -box.top,
                                 Box(0, 0, width, height))]

\* what pixel (i, j) of the image shows: the picture of the last layer over
\* it, and which pixel of that picture
PixelAt(image, i, j) ==
    LET Over(k) == /\ image.layers[k].box.left <= i
                   /\ i < image.layers[k].box.right
                   /\ image.layers[k].box.top <= j
                   /\ j < image.layers[k].box.bottom
        top == CHOOSE k \in DOMAIN image.layers :
                   Over(k) /\ \A m \in DOMAIN image.layers : Over(m) => m <= k
        l == image.layers[top]
    IN  [src |-> l.src, u |-> i - l.origin[1], v |-> j - l.origin[2]]

\* ------------------------------------------------- request-shaped inputs
\* A string is a list of characters; "U+00D7" is the multiplication sign.
\* str.lower(): "X" is the only upper-case character of the strings modelled
StrLower(str) == [i \in 1..Len(str) |-> IF str[i] = "X" THEN "x" ELSE str[i]]

\* str.replace(" ", "")
RemoveSpaces(str) ==
    LET NotSpace(c) == c # " "
    IN  SelectSeq(str, NotSpace)

Contains(str, c) == \E i \in 1..Len(str) : str[i] = c

\* str.split(sep, 1): the text before and after the first sep
SplitFirst(str, sep) ==
    LET i == CHOOSE i \in 1..Len(str) :
                 str[i] = sep /\ \A j \in 1..(i - 1) : str[j] # sep
    IN  <<SubSeq(str, 1, i - 1), SubSeq(str, i + 1, Len(str))>>

DigitValue(c) ==
    CASE c = "0" -> 0 [] c = "1" -> 1 [] c = "2" -> 2 [] c = "3" -> 3
      [] c = "4" -> 4 [] c = "5" -> 5 [] c = "6" -> 6 [] c = "7" -> 7
      [] c = "8" -> 8 [] c = "9" -> 9 [] OTHER -> -1

RECURSIVE DigitsValue(_)
DigitsValue(ds) ==
    IF ds = <<>> THEN 0
    ELSE 10 * DigitsValue(SubSeq(ds, 1, Len(ds) - 1)) + DigitValue(ds[Len(ds)])

\* int(str) on a string without spaces: an optional sign and decimal digits
PyInt(str) ==
    LET signed == str # <<>> /\ str[1] \in {"+", "-"}
        ds == IF signed THEN Tail(str) ELSE str
    IN  IF ds = <<>> \/ \E i \in 1..Len(ds) : DigitValue(ds[i]) < 0
        THEN [raised |-> "ValueError: invalid literal for int()"]
        ELSE [raised |-> "none",
              value |-> IF signed /\ str[1] = "-" THEN -DigitsValue(ds)
                        ELSE DigitsValue(ds)]

\* no separator is recognised
parse_resolution_unparsed(res_str) ==
    [raised |-> "ValueError: Could not parse resolution"]

\* map_animator.py:171-180
parse_resolution(res_str) ==
    LET str == RemoveSpaces(StrLower(res_str))
        seps == <<"x", ",", "U+00D7">>
        found == {k \in 1..3 : Contains(str, seps[k])}
    IN  IF found = {}
        THEN [raised |-> "ValueError: Could not parse resolution"]
        ELSE LET sep == seps[CHOOSE k \in found : \A m \in found : k <= m]
                 parts == SplitFirst(str, sep)
                 w == PyInt(parts[1])
                 h == PyInt(parts[2])
             IN  IF w.raised # "none" THEN w
                 ELSE IF h.raised # "none" THEN h
                 ELSE [raised |-> "none", width_px |-> w.value,
                       height_px |-> h.value]

\* ------------------------------------------------------ configuration
\* float(str) on a string without spaces, exponent, "inf" or "nan": an
\* optional sign, decimal digits and at most one point
PyFloat(str) ==
    LET signed == str # <<>> /\ str[1] \in {"+", "-"}
        body == IF signed THEN Tail(str) ELSE str
        points == {i \in 1..Len(body) : body[i] = "."}
        IsDigit(c) == DigitValue(c) >= 0
        digits == SelectSeq(body, IsDigit)
    IN  IF \/ digits = <<>>
           \/ Cardinality(points) > 1
           \/ \E i \in 1..Len(body) : ~IsDigit(body[i]) /\ body[i] # "."
        THEN [raised |-> "ValueError: could not convert string to float"]
        ELSE LET decimals == IF points = {} THEN 0
                             ELSE Len(body) - (CHOOSE i \in points : TRUE)
                 RECURSIVE Pow10(_)
                 Pow10(k) == IF k = 0 THEN 1 ELSE 10 * Pow10(k - 1)
                 magnitude == Rat(DigitsValue(digits), Pow10(decimals))
             IN  [raised |-> "none",
                  value |-> IF signed /\ str[1] = "-"
                            THEN RSub(FromInt(0), magnitude) ELSE magnitude]

\* an environment variable: unset, or set to a text
EnvUnset == [set |-> FALSE, raw |-> <<>>]
EnvSet(raw) == [set |-> TRUE, raw |-> raw]

\* os.environ.get(name, default)
environ_get(var, default) == IF var.set THEN var.raw ELSE default

\* map_animator.py:73-80
_read_int_env(var, default) ==
    IF ~var.set THEN [raised |-> "none", value |-> default]
    ELSE LET parsed == PyInt(var.raw)
         IN  IF parsed.raised # "none"
             THEN [raised |-> "none", value |-> default]
             ELSE parsed

\* map_animator.py:60-70, in hundredths
FFMPEG_PRESET_SPEED ==
    [ultrafast |-> Rat(55, 100), superfast |-> Rat(65, 100),
     veryfast |-> Rat(75, 100), faster |-> Rat(85, 100),
     fast |-> Rat(95, 100), medium |-> FromInt(1), slow |-> Rat(115, 100),
     slower |-> Rat(130, 100), veryslow |-> Rat(150, 100)]

\* str.strip().lower() of a preset name, on the names modelled
PresetStripLower(preset) ==
    CASE preset = " Slow " -> "slow" [] preset = "MEDIUM" -> "medium"
      [] OTHER -> preset

\* map_animator.py:137-139
_normalize_ffmpeg_preset(preset) ==
    LET normalized == PresetStripLower(preset)
    IN  IF normalized \in DOMAIN FFMPEG_PRESET_SPEED THEN normalized
        ELSE "veryfast"

\* a slower preset is given the smaller factor
preset_factor_reversed(preset) == RSub(FromInt(2), FFMPEG_PRESET_SPEED[preset])

\* map_animator.py:146-147
_ffmpeg_preset_speed_factor(preset) ==
    IF preset \in DOMAIN FFMPEG_PRESET_SPEED THEN FFMPEG_PRESET_SPEED[preset]
    ELSE FFMPEG_PRESET_SPEED["veryfast"]

BuiltinFfmpegCrf == 23
BuiltinFfmpegThreads == 0
BuiltinTileTimeout == 10
BuiltinUserAgent == "gpx-helper/0.1.0 (contact: pooria_taghdiri@hotmail.com)"

\* the values the environment variables are given.  MAP_TILE_SUBDOMAINS is
\* held as its comma-separated fields.
EnvIntegers ==
    {EnvUnset, EnvSet(<<"7">>), EnvSet(<<"-", "1">>), EnvSet(<<"2", ".", "5">>)}
EnvTimeouts ==
    {EnvUnset, EnvSet(<<"2", ".", "5">>), EnvSet(<<"0">>),
     EnvSet(<<"s", "o", "o", "n">>), EnvSet(<<>>)}
EnvPresets ==
    {EnvUnset, EnvSet(" Slow "), EnvSet("ultrafast"), EnvSet("turbo"),
     EnvSet("")}
EnvSubdomains ==
    {EnvUnset, EnvSet(<<"">>), EnvSet(<<"a", "", "b">>), EnvSet(<<"", "">>)}
EnvTexts == {EnvUnset, EnvSet("")}

\* map_animator.py:29-85: the module-level assignments, in order; an
\* exception of one of them ends the import
load_configuration(environ) ==
    LET fields == environ_get(environ.MAP_TILE_SUBDOMAINS, <<"">>)
        NonEmpty(sd) == sd # ""
        listed == SelectSeq(fields, NonEmpty)
        timeout == PyFloat(environ_get(environ.MAP_TILE_TIMEOUT_SECONDS,
                                       <<"1", "0">>))
    IN  IF timeout.raised # "none" THEN timeout
        ELSE [raised |-> "none",
              DEFAULT_TILE_URL_TEMPLATE |->
                  environ_get(environ.MAP_TILE_URL_TEMPLATE,
                              "https://tile.openstreetmap.org/{z}/{x}/{y}.png"),
              DEFAULT_FFMPEG_PRESET |->
                  environ_get(environ.MAP_ANIM_FFMPEG_PRESET, "veryfast"),
              DEFAULT_TILE_SUBDOMAINS |->
                  IF listed # <<>> THEN listed ELSE <<"a", "b", "c">>,
              TILE_REQUEST_TIMEOUT |-> timeout.value,
              TILE_USER_AGENT |->
                  environ_get(environ.MAP_TILE_USER_AGENT, BuiltinUserAgent),
              TILE_REFERER |-> environ_get(environ.MAP_TILE_REFERER, ""),
              DEFAULT_FFMPEG_CRF |->
                  _read_int_env(environ.MAP_ANIM_FFMPEG_CRF,
                                BuiltinFfmpegCrf).value,
              DEFAULT_FFMPEG_THREADS |->
                  _read_int_env(environ.MAP_ANIM_FFMPEG_THREADS,
                                BuiltinFfmpegThreads).value,
              DEFAULT_MAX_FRAMES |->
                  _read_int_env(environ.MAP_ANIM_MAX_FRAMES,
                                BuiltinMaxFrames).value]

\* the process starts with some environment and imports the module
InitConfig ==
    /\ \E template \in EnvTexts, subdomains \in EnvSubdomains,
          timeout \in EnvTimeouts, agent \in EnvTexts, referer \in EnvTexts,
          preset \in EnvPresets, crf \in EnvIntegers, threads \in EnvIntegers,
          frames \in EnvIntegers :
           call = [fn |-> "import map_animator",
                   environ |->
                       [MAP_TILE_URL_TEMPLATE |-> template,
                        MAP_TILE_SUBDOMAINS |-> subdomains,
                        MAP_TILE_TIMEOUT_SECONDS |-> timeout,
                        MAP_TILE_USER_AGENT |-> agent,
                        MAP_TILE_REFERER |-> referer,
                        MAP_ANIM_FFMPEG_PRESET |-> preset,
                        MAP_ANIM_FFMPEG_CRF |-> crf,
                        MAP_ANIM_FFMPEG_THREADS |-> threads,
                        MAP_ANIM_MAX_FRAMES |-> frames]]
    /\ DEFAULT_MAX_FRAMES = BuiltinMaxFrames
    /\ ret = NotReturned
    /\ PipeIdle

\* the import succeeds and the constants are bound; the preset is normalised
\* where it is used (map_animator.py:556, 707)
ImportSucceeds ==
    /\ call.fn = "import map_animator"
    /\ ~ret.done
    /\ LET loaded == load_configuration(call.environ)
       IN  /\ loaded.raised = "none"
           /\ ret' = [done |-> TRUE, raised |-> "none", config |-> loaded,
                      preset |->
                          _normalize_ffmpeg_preset(loaded.DEFAULT_FFMPEG_PRESET)]
           /\ DEFAULT_MAX_FRAMES' = loaded.DEFAULT_MAX_FRAMES
    /\ UNCHANGED call
    /\ UNCHANGED pipe_vars
    /\ UNCHANGED tile_vars

\* the import ends with the exception of a module-level assignment
ImportFails ==
    /\ call.fn = "import map_animator"
    /\ ~ret.done
    /\ LET loaded == load_configuration(call.environ)
       IN  /\ loaded.raised # "none"
           /\ ret' = [done |-> TRUE, raised |-> loaded.raised]
    /\ UNCHANGED <<DEFAULT_MAX_FRAMES, call>>
    /\ UNCHANGED pipe_vars
    /\ UNCHANGED tile_vars

NextConfig == ImportSucceeds \/ ImportFails

SpecConfig == InitConfig /\ [][NextConfig]_vars

\* ------------------------------------------- resolution specification
\* the characters a resolution string is made of, and the strings of up to
\* MaxResLen of them
ResolutionChars == {"0", "1", "2", "x", "X", ",", "U+00D7", ":", " ", "-"}

ResolutionStrings ==
    UNION {[1..n -> ResolutionChars] : n \in 0..MaxResLen}

InitResolution ==
    /\ \E res_str \in ResolutionStrings :
           call = [fn |-> "parse_resolution", res_str |-> res_str]
    /\ DEFAULT_MAX_FRAMES = BuiltinMaxFrames
    /\ ret = NotReturned
    /\ PipeIdle

\* api/main.py:245-250: the handler parses the resolution field and answers
\* 400 when parsing raises or a dimension is not positive
Call_parse_resolution ==
    /\ call.fn = "parse_resolution"
    /\ ~ret.done
    /\ LET parsed == parse_resolution(call.res_str)
       IN  ret' = [done |-> TRUE,
                   value |-> parsed,
                   status |->
                       IF parsed.raised # "none" THEN 400
                       ELSE IF parsed.width_px <= 0 \/ parsed.height_px <= 0
                       THEN 400
                       ELSE 0]
    /\ UNCHANGED <<DEFAULT_MAX_FRAMES, call>>
    /\ UNCHANGED pipe_vars
    /\ UNCHANGED tile_vars

NextResolution == Call_parse_resolution

SpecResolution == InitResolution /\ [][NextResolution]_vars

\* map_animator.py:29-53: the tile sources
DEFAULT_TILE_URL_TEMPLATE == "https://tile.openstreetmap.org/{z}/{x}/{y}.png"
DEFAULT_TILE_SUBDOMAINS == <<"a", "b", "c">>
TILE_PROVIDERS ==
    [osm |-> [template |-> "https://tile.openstreetmap.org/{z}/{x}/{y}.png",
              subdomains |-> <<>>],
     cyclosm |->
         [template |->
              "https://{s}.tile-cyclosm.openstreetmap.fr/cyclosm/{z}/{x}/{y}.png",
          subdomains |-> <<"a", "b", "c">>],
     opentopomap |->
         [template |-> "https://{s}.tile.opentopomap.org/{z}/{x}/{y}.png",
          subdomains |-> <<"a", "b", "c">>]]

\* str.lower() of a provider key, on the keys modelled
KeyLower(key) ==
    CASE key = "CyclOSM" -> "cyclosm" [] key = "OSM" -> "osm" [] OTHER -> key

\* map_animator.py:126-134; tile_type "" stands for None and for ""
resolve_tile_provider(tile_type) ==
    IF tile_type = ""
    THEN [raised |-> "none", template |-> DEFAULT_TILE_URL_TEMPLATE,
          subdomains |-> DEFAULT_TILE_SUBDOMAINS]
    ELSE LET key == KeyLower(tile_type)
         IN  IF key \notin DOMAIN TILE_PROVIDERS
             THEN [raised |->
                      "ValueError: tile_type must be one of: cyclosm, opentopomap, osm"]
             ELSE [raised |-> "none",
                   template |-> TILE_PROVIDERS[key].template,
                   subdomains |-> TILE_PROVIDERS[key].subdomains]

\* map_animator.py:183-203, on the parsed content of the uploaded file
load_gpx_points(gpx) ==
    IF gpx.kind = "no_trk"
    THEN [raised |-> "ValueError: No <trk> found in GPX file"]
    ELSE IF gpx.kind = "no_trkseg"
    THEN [raised |-> "ValueError: No <trkseg> found"]
    ELSE IF Len(gpx.lats) = 0
    THEN [raised |-> "ValueError: No <trkpt> points found"]
    ELSE [raised |-> "none", lats |-> gpx.lats, lons |-> gpx.lons]

\* map_animator.py:206-224.  Lengths are in units of R * pi / 180 metres, so
\* x is the longitude in degrees and y the Mercator ordinate of the latitude
\* clamped to +/-MAX_MERCATOR_LAT (0 on the equator).
latlon_to_web_mercator(lats, lons) ==
    <<Force([i \in 1..Min2(Len(lats), Len(lons)) |-> lons[i]]),
      Force([i \in 1..Min2(Len(lats), Len(lons)) |-> mercator_y(lats[i])])>>

\* ------------------------------------------------------- tile mosaic

\* "{s}" in template, for the templates of TILE_PROVIDERS
HasSubdomainField(template) ==
    template \in {TILE_PROVIDERS.cyclosm.template,
                  TILE_PROVIDERS.opentopomap.template}

\* map_animator.py:115-123: the URL is the template with its fields filled in
_format_tile_url(template, subdomains, tile_index, zoom, x, y) ==
    LET resolved_subdomains ==
            IF subdomains # <<>> THEN subdomains ELSE <<"a", "b", "c">>
    IN  [template |-> template,
         s |-> IF HasSubdomainField(template)
               THEN resolved_subdomains[(tile_index % Len(resolved_subdomains)) + 1]
               ELSE "",
         z |-> zoom, x |-> x, y |-> y]

\* what the network answers to one request: the bytes of a PNG tile, bytes
\* that are no image, or an error (connection, timeout, HTTP status)
NetworkOutcomes == {"png", "garbage", "error"}

\* a failed download is remembered like a successful one
download_tile_caching_errors(cache, tile_url, outcome) ==
    LET hits == {i \in DOMAIN cache : cache[i].url = tile_url}
    IN  IF hits # {}
        THEN [raised |-> IF cache[CHOOSE i \in hits : TRUE].data = "error"
                         THEN "URLError" ELSE "none",
              data |-> cache[CHOOSE i \in hits : TRUE].data,
              source |-> "cache", cache |-> cache]
        ELSE [raised |-> IF outcome = "error" THEN "URLError" ELSE "none",
              data |-> outcome, source |-> "network",
              cache |-> Append(cache, [url |-> tile_url, data |-> outcome])]

\* map_animator.py:158-168 under functools.lru_cache(maxsize=256): a hit
\* returns the stored bytes and makes the entry the most recently used; a
\* miss calls the function, and only a value it returns is stored, the
\* least recently used entry making room for it.  The capacity, 256 in the
\* source, is scaled down to MaxCachedTiles so that renders of a few tiles
\* fill the cache.
_download_tile(cache, tile_url, outcome) ==
    LET hits == {i \in DOMAIN cache : cache[i].url = tile_url}
    IN  IF hits # {}
        THEN LET i == CHOOSE i \in hits : TRUE
             IN  [raised |-> "none", data |-> cache[i].data,
                  source |-> "cache",
                  cache |-> SubSeq(cache, 1, i - 1)
                            \o SubSeq(cache, i + 1, Len(cache))
                            \o <<cache[i]>>]
        ELSE IF outcome = "error"
        THEN [raised |-> "URLError", data |-> "", source |-> "network",
              cache |-> cache]
        ELSE LET grown == Append(cache, [url |-> tile_url, data |-> outcome])
             IN  [raised |-> "none", data |-> outcome, source |-> "network",
                  cache |-> IF Len(grown) > MaxCachedTiles
                            THEN Tail(grown) ELSE grown]

\* a tile whose download or decoding failed is left out of the mosaic
skip_failed_tile(data) == ImageNew(TILE_SIZE, TILE_SIZE, BLACK)

\* map_animator.py:400: the tile pasted when the download or the decoding
\* raised
placeholder_tile(data) == ImageNew(TILE_SIZE, TILE_SIZE, PLACEHOLDER)

\* map_animator.py:389-403: the tiles from number tile_index on, column by
\* column; `acc` holds the mosaic, the cache and the requests so far
RECURSIVE fetch_tiles(_, _, _, _, _, _)
fetch_tiles(tile_index, acc, window, template, subdomains, outcomes) ==
    LET t == window.tile_bounds
        tiles_wide == t.max_x_tile - t.min_x_tile + 1
        tiles_high == t.max_y_tile - t.min_y_tile + 1
    IN  IF tile_index >= tiles_wide * tiles_high THEN acc
        ELSE
        LET x == t.min_x_tile + (tile_index \div tiles_high)
            y == t.min_y_tile + (tile_index % tiles_high)
            tile_url == _format_tile_url(template, subdomains, tile_index,
                                         window.zoom, x, y)
            x_offset == (x - t.min_x_tile) * TILE_SIZE
            y_offset == (y - t.min_y_tile) * TILE_SIZE
            Pasted(downloaded) ==
                LET decoded == downloaded.raised = "none"
                               /\ downloaded.data = "png"
                    tile_image ==
                        IF decoded
                        THEN ImageNew(TILE_SIZE, TILE_SIZE,
                                      TilePicture(window.zoom, x, y))
                        ELSE placeholder_tile(downloaded.data)
                IN  [stitched |-> ImagePaste(acc.stitched, tile_image,
                                             x_offset, y_offset),
                     cache |-> downloaded.cache,
                     requests |->
                         Append(acc.requests,
                                [url |-> tile_url,
                                 source |-> downloaded.source,
                                 data |-> downloaded.data,
                                 failed |-> ~decoded])]
            next == CHOOSE after \in
                        {Pasted(downloaded) :
                            downloaded \in {_download_tile(
                                               acc.cache, tile_url,
                                               outcomes[tile_index + 1])}} :
                        TRUE
        IN  fetch_tiles(tile_index + 1, next, window, template, subdomains,
                        outcomes)

\* map_animator.py:423-426: pixel_to_lonlat (254-262) followed by
\* latlon_to_web_mercator_point (227-232), which clamps the latitude
pixel_to_web_mercator(x, y, zoom) ==
    LET n == Pow2(zoom)
        lon == RSub(RMul(RDiv(FromInt(x), FromInt(256 * n)), FromInt(360)),
                    FromInt(180))
    IN  <<lon, mercator_y_of_row(Rat(y, n))>>

\* the number of tiles the window of a request covers (0 when none is
\* computed)
TilesNeeded(window) ==
    IF window.raised # "none" THEN 0
    ELSE (window.tile_bounds.max_x_tile - window.tile_bounds.min_x_tile + 1)
         * (window.tile_bounds.max_y_tile - window.tile_bounds.min_y_tile + 1)

\* map_animator.py:380-429: the mosaic for a window that was computed
stitch_window(window, width_px, height_px, tile_template, tile_subdomains, cache, outcomes) ==
    LET t == window.tile_bounds
        tiles_wide == t.max_x_tile - t.min_x_tile + 1
        tiles_high == t.max_y_tile - t.min_y_tile + 1
        resolved_template ==
            IF tile_template # "" THEN tile_template
            ELSE DEFAULT_TILE_URL_TEMPLATE
        fetched ==
            fetch_tiles(0,
                        [stitched |-> ImageNew(tiles_wide * TILE_SIZE,
                                               tiles_high * TILE_SIZE, BLACK),
                         cache |-> cache, requests |-> <<>>],
                        window, resolved_template, tile_subdomains, outcomes)
        d == window.desired_window
        f == window.fetch_window
        crop_left == f.left - t.min_x_tile * TILE_SIZE
        crop_top == f.top - t.min_y_tile * TILE_SIZE
        crop_right == crop_left + (f.right - f.left)
        crop_bottom == crop_top + (f.bottom - f.top)
        cropped == ImageCrop(fetched.stitched,
                             Box(crop_left, crop_top, crop_right, crop_bottom))
        final_image ==
            IF cropped.size # <<width_px, height_px>>
            THEN ImagePaste(ImageNew(width_px, height_px, PLACEHOLDER),
                            cropped, f.left - d.left, f.top - d.top)
            ELSE cropped
        north_west == pixel_to_web_mercator(d.left, d.top, window.zoom)
        south_east == pixel_to_web_mercator(d.right, d.bottom, window.zoom)
    IN  [raised |-> "none",
         image |-> final_image,
         extent |-> [min_x |-> north_west[1], max_x |-> south_east[1],
                     min_y |-> south_east[2], max_y |-> north_west[2]],
         cache |-> fetched.cache,
         requests |-> fetched.requests]

\* map_animator.py:507-519, for one point
_project_points_to_pixels(x, y, extent, width_px, height_px) ==
    LET x_scale == RDiv(FromInt(width_px), RSub(extent.max_x, extent.min_x))
        y_scale == RDiv(FromInt(height_px), RSub(extent.max_y, extent.min_y))
    IN  <<RMul(RSub(x, extent.min_x), x_scale),
          RMul(RSub(extent.max_y, y), y_scale)>>

\* --------------------------------------------- basemap specification
\* the latitudes of a bounding box: those of MercatorRows but the pole,
\* whose row at zoom 18 is too far from the world to be computed
BasemapLatitudes == Latitudes \ {FromInt(90)}
BasemapSizes == {64, 128, 512}
BasemapTileTypes == {"", "cyclosm"}

\* the arguments of one call, the tile source being the one the handler
\* resolves for the tile_type field
BasemapArgs(min_lat, max_lat, min_lon, max_lon, width_px, height_px, tile_type) ==
    [min_lat |-> min_lat, max_lat |-> max_lat, min_lon |-> min_lon,
     max_lon |-> max_lon, width_px |-> width_px, height_px |-> height_px,
     tile_template |-> resolve_tile_provider(tile_type).template,
     tile_subdomains |-> resolve_tile_provider(tile_type).subdomains]

window_of(a) ==
    _compute_tile_fetch_window(a.min_lat, a.max_lat, a.min_lon, a.max_lon,
                               a.width_px, a.height_px)

\* a first render in a process, of a route that does not stay at one point
InitBasemap ==
    /\ \E min_lat \in BasemapLatitudes, max_lat \in BasemapLatitudes,
          min_lon \in Longitudes, max_lon \in Longitudes,
          width_px \in BasemapSizes, height_px \in BasemapSizes,
          tile_type \in BasemapTileTypes :
        /\ RLeq(min_lat, max_lat)
        /\ RLeq(min_lon, max_lon)
        /\ min_lat # max_lat \/ min_lon # max_lon
        /\ call = [fn |-> "fetch_basemap_image",
                   args |-> BasemapArgs(min_lat, max_lat, min_lon, max_lon,
                                        width_px, height_px, tile_type)]
    /\ DEFAULT_MAX_FRAMES = BuiltinMaxFrames
    /\ ret = NotReturned
    /\ PipeIdle

\* what the network answers to the tile requests of one render: anything
\* for each tile, or the same for all of them
Answers(tiles, alike) ==
    IF alike THEN {[k \in 1..tiles |-> o] : o \in NetworkOutcomes}
    ELSE [1..tiles -> NetworkOutcomes]

\* map_animator.py:356-429 called with the arguments `a`: the window is
\* computed (line 374), an exception of that leaving the function; then the
\* mosaic is built, the network answering the tile requests
FetchBasemapImage(a, alike) ==
    \E window \in {window_of(a)} :
        IF window.raised # "none"
        THEN /\ ret' = [done |-> TRUE, value |-> [raised |-> window.raised],
                        window |-> window, outcomes |-> <<>>]
             /\ UNCHANGED tile_vars
        ELSE \E outcomes \in Answers(TilesNeeded(window), alike) :
             \E result \in {stitch_window(window, a.width_px, a.height_px,
                                          a.tile_template, a.tile_subdomains,
                                          tile_cache, outcomes)} :
                /\ ret' = [done |-> TRUE, value |-> result,
                           window |-> window, outcomes |-> outcomes]
                /\ tile_cache' = result.cache
                /\ tile_requests' = tile_requests \o result.requests

Call_fetch_basemap_image ==
    /\ call.fn = "fetch_basemap_image"
    /\ ~ret.done
    /\ FetchBasemapImage(call.args, FALSE)
    /\ UNCHANGED <<DEFAULT_MAX_FRAMES, call>>
    /\ UNCHANGED pipe_vars

NextBasemap == Call_fetch_basemap_image

SpecBasemap == InitBasemap /\ [][NextBasemap]_vars

\* ------------------------------------------ tile cache specification
\* the renders of one process: windows of one, two and six tiles, from the
\* default tile source and from one with subdomains
RenderRequests ==
    {BasemapArgs(FromInt(0), Rat(4704, 100), FromInt(0), FromInt(90),
                 128, 128, ""),
     BasemapArgs(FromInt(0), Rat(4704, 100), FromInt(0), FromInt(90),
                 512, 512, ""),
     BasemapArgs(FromInt(0), Rat(8902, 100), FromInt(-180), FromInt(90),
                 128, 128, "cyclosm"),
     BasemapArgs(FromInt(0), Rat(4704, 100), FromInt(0), FromInt(90),
                 128, 128, "cyclosm")}

InitRenders ==
    /\ call = [fn |-> "renders", n |-> 0]
    /\ DEFAULT_MAX_FRAMES = BuiltinMaxFrames
    /\ ret = NotReturned
    /\ PipeIdle

\* one more render in the process: its tiles come from the cache the
\* renders before it left, or from the network
Render ==
    /\ call.fn = "renders"
    /\ call.n < MaxRenders
    /\ \E a \in RenderRequests :
        /\ FetchBasemapImage(a, TRUE)
        /\ call' = [fn |-> "renders", n |-> call.n + 1, args |-> a]
    /\ UNCHANGED DEFAULT_MAX_FRAMES
    /\ UNCHANGED pipe_vars

NextRenders == Render

SpecRenders == InitRenders /\ [][NextRenders]_vars

\* -------------------------------------- concurrent renders specification
\* The handler is a plain `def` (api/main.py:224), which the server runs on
\* a thread of its pool: renders of one process run side by side and share
\* the cache of _download_tile.  functools.lru_cache looks the key up, calls
\* the function without holding its lock, and stores the result afterwards
\* unless the key has been stored in the meantime.

\* map_animator.py:389-395: the tile URLs of a render, in the order asked
tile_urls(a, window) ==
    LET t == window.tile_bounds
        tiles_high == t.max_y_tile - t.min_y_tile + 1
        resolved_template ==
            IF a.tile_template # "" THEN a.tile_template
            ELSE DEFAULT_TILE_URL_TEMPLATE
    IN  [k \in 1..TilesNeeded(window) |->
            _format_tile_url(resolved_template, a.tile_subdomains, k - 1,
                             window.zoom,
                             t.min_x_tile + ((k - 1) \div tiles_high),
                             t.min_y_tile + ((k - 1) % tiles_high))]

\* the cache lookup of lru_cache: a hit makes the entry the most recently
\* used one
lru_lookup(cache, tile_url) ==
    LET hits == {i \in DOMAIN cache : cache[i].url = tile_url}
    IN  IF hits = {} THEN [hit |-> FALSE, data |-> "", cache |-> cache]
        ELSE LET i == CHOOSE i \in hits : TRUE
             IN  [hit |-> TRUE, data |-> cache[i].data,
                  cache |-> SubSeq(cache, 1, i - 1)
                            \o SubSeq(cache, i + 1, Len(cache))
                            \o <<cache[i]>>]

\* the result of a download replaces the entry another thread stored
lru_store_last_wins(cache, tile_url, data) ==
    LET Others(e) == e.url # tile_url
        grown == Append(SelectSeq(cache, Others),
                        [url |-> tile_url, data |-> data])
    IN  IF Len(grown) > MaxCachedTiles THEN Tail(grown) ELSE grown

\* lru_cache after the call returned: the result is stored unless the key
\* is in the cache by now, the least recently used entry making room
lru_store(cache, tile_url, data) ==
    IF \E i \in DOMAIN cache : cache[i].url = tile_url THEN cache
    ELSE LET grown == Append(cache, [url |-> tile_url, data |-> data])
         IN  IF Len(grown) > MaxCachedTiles THEN Tail(grown) ELSE grown

\* the bytes the cache holds for a URL ("" when it holds none)
cached_bytes(cache, tile_url) ==
    IF \E i \in DOMAIN cache : cache[i].url = tile_url
    THEN cache[CHOOSE i \in DOMAIN cache : cache[i].url = tile_url].data
    ELSE ""

\* the renders that run side by side: windows of one and two tiles
ConcurrentRequests ==
    {a \in RenderRequests : a.width_px = 128}

Threads == {1, 2}

InitConcurrent ==
    /\ \E first \in ConcurrentRequests, second \in ConcurrentRequests :
           call = [fn |-> "concurrent_renders",
                   renders |->
                       [t \in Threads |->
                           LET a == IF t = 1 THEN first ELSE second
                           IN  [urls |-> tile_urls(a, window_of(a)),
                                tile_index |-> 0,
                                downloading |-> FALSE]]]
    /\ DEFAULT_MAX_FRAMES = BuiltinMaxFrames
    /\ ret = NotReturned
    /\ PipeIdle

\* map_animator.py:397 on thread t: _download_tile is called and the cache
\* is looked up; on a miss the thread goes to the network
LookUpTile(t) ==
    LET r == call.renders[t]
    IN  /\ call.fn = "concurrent_renders"
        /\ ~r.downloading
        /\ r.tile_index < Len(r.urls)
        /\ \E found \in {lru_lookup(tile_cache, r.urls[r.tile_index + 1])} :
            IF found.hit
            THEN /\ tile_cache' = found.cache
                 /\ tile_requests' =
                        Append(tile_requests,
                               [thread |-> t, url |-> r.urls[r.tile_index + 1],
                                source |-> "cache", data |-> found.data,
                                entry |-> found.data])
                 /\ call' = [call EXCEPT
                                !.renders[t].tile_index = @ + 1]
            ELSE /\ call' = [call EXCEPT !.renders[t].downloading = TRUE]
                 /\ UNCHANGED tile_vars
        /\ UNCHANGED <<DEFAULT_MAX_FRAMES, ret>>
        /\ UNCHANGED pipe_vars

\* map_animator.py:163-168 on thread t: the download ends, with an
\* exception (nothing is stored, line 400 pastes the placeholder) or with
\* bytes, which lru_cache stores unless the URL is in the cache by now
TileDownloaded(t) ==
    LET r == call.renders[t]
        tile_url == r.urls[r.tile_index + 1]
    IN  /\ call.fn = "concurrent_renders"
        /\ r.downloading
        /\ \E outcome \in NetworkOutcomes :
            /\ tile_cache' = IF outcome = "error" THEN tile_cache
                             ELSE lru_store(tile_cache, tile_url, outcome)
            /\ tile_requests' =
                   Append(tile_requests,
                          [thread |-> t, url |-> tile_url,
                           source |-> "network",
                           data |-> IF outcome = "error" THEN "" ELSE outcome,
                           entry |-> cached_bytes(tile_cache', tile_url)])
        /\ call' = [call EXCEPT !.renders[t].downloading = FALSE,
                                !.renders[t].tile_index = @ + 1]
        /\ UNCHANGED <<DEFAULT_MAX_FRAMES, ret>>
        /\ UNCHANGED pipe_vars

NextConcurrent ==
    \/ \E t \in Threads : LookUpTile(t)
    \/ \E t \in Threads : TileDownloaded(t)

SpecConcurrent == InitConcurrent /\ [][NextConcurrent]_vars

\* ---------------------------------------------------- render estimate
\* map_animator.py:690-720, DEFAULT_FFMPEG_PRESET being `configured_preset`
\* the estimate is returned as it was summed
estimate_unbounded(estimate) == estimate

\* map_animator.py:720
bounded_estimate(estimate) == RMax(FromInt(2), RMin(estimate, FromInt(600)))

estimate_seconds(series, window, width_px, height_px, preset_factor) ==
    IF series.raised # "none" THEN [raised |-> series.raised]
    ELSE IF window.raised # "none" THEN [raised |-> window.raised]
    ELSE
    LET n_points == Len(series.xs)
        total_frames == series.total_frames
        t == window.tile_bounds
        tiles_needed == (t.max_x_tile - t.min_x_tile + 1)
                        * (t.max_y_tile - t.min_y_tile + 1)
        resolution_factor ==
            RMax(Rat(1, 2),
                 RMin(Rat(width_px * height_px, 1280 * 720), FromInt(8)))
        path_factor ==
            RAdd(FromInt(1), RMin(Rat(n_points, 6000), Rat(3, 4)))
        tile_seconds == RMul(FromInt(tiles_needed), Rat(2, 5))
        render_seconds ==
            RMax(RMul(RMul(RMul(FromInt(total_frames), Rat(1, 50)),
                           resolution_factor), path_factor),
                 Rat(1, 2))
        encode_seconds ==
            RMax(RMul(RMul(RMul(FromInt(total_frames), Rat(9, 2000)),
                           resolution_factor), preset_factor),
                 Rat(1, 2))
        overhead_seconds == Rat(3, 2)
        estimate == RAdd(RAdd(RAdd(overhead_seconds, tile_seconds),
                              render_seconds), encode_seconds)
    IN  [raised |-> "none", seconds |-> bounded_estimate(estimate)]

\* map_animator.py:678-720: the schedule (686-692) and the tile window
\* (694-702) are computed once each, then the estimate from them
estimate_animation_seconds(lats, lons, width_px, height_px, duration_sec, fps, configured_preset) ==
    LET Least(f) == f[CHOOSE i \in DOMAIN f : \A j \in DOMAIN f : RLeq(f[i], f[j])]
        Greatest(f) == f[CHOOSE i \in DOMAIN f : \A j \in DOMAIN f : RLeq(f[j], f[i])]
    IN  CHOOSE estimated \in
            {estimate_seconds(
                 series, window, width_px, height_px,
                 _ffmpeg_preset_speed_factor(
                     _normalize_ffmpeg_preset(configured_preset))) :
             series \in {prepare_animation_series(merc[1], merc[2], duration_sec, fps) :
                            merc \in {latlon_to_web_mercator(lats, lons)}},
             window \in {_compute_tile_fetch_window(
                             Least(lats), Greatest(lats),
                             Least(lons), Greatest(lons),
                             width_px, height_px)}} : TRUE

\* the encoder presets from the fastest to the slowest, and a name that is
\* not a preset
PresetsBySlowness ==
    <<"ultrafast", "superfast", "veryfast", "faster", "fast", "medium", "slow",
      "slower", "veryslow">>

ConfiguredPresets ==
    {PresetsBySlowness[k] : k \in DOMAIN PresetsBySlowness} \cup {"turbo"}

\* a route of n points along the equator, 45/64 degree apart: half a pixel
\* at zoom 0, so that the pixel coordinates are exact at every zoom
EquatorRoute(n) ==
    [lats |-> [i \in 1..n |-> FromInt(0)],
     lons |-> [i \in 1..n |-> Rat(45 * (i - 1), 64)]]

\* the requests estimated: an equator route of 2..MaxPoints points, at four
\* resolutions, two durations and two frame rates
EstimateResolutions ==
    {<<64, 64>>, <<1280, 720>>, <<3840, 2160>>, <<7680, 4320>>}
EstimateDurations == {FromInt(1), FromInt(60)}
EstimateFps == {FromInt(1), FromInt(30)}

\* one request estimated under two settings of MAP_ANIM_FFMPEG_PRESET
InitEstimate ==
    /\ \E n \in 2..MaxPoints, resolution \in EstimateResolutions,
          duration_sec \in EstimateDurations, fps \in EstimateFps,
          first \in ConfiguredPresets, second \in ConfiguredPresets :
           call = [fn |-> "estimate_animation_seconds",
                   lats |-> EquatorRoute(n).lats, lons |-> EquatorRoute(n).lons,
                   width_px |-> resolution[1], height_px |-> resolution[2],
                   duration_sec |-> duration_sec, fps |-> fps,
                   presets |-> <<first, second>>]
    /\ DEFAULT_MAX_FRAMES = BuiltinMaxFrames
    /\ ret = NotReturned
    /\ PipeIdle

Call_estimate_animation_seconds ==
    /\ call.fn = "estimate_animation_seconds"
    /\ ~ret.done
    /\ ret' = [done |-> TRUE,
               value |->
                   [k \in 1..2 |->
                       estimate_animation_seconds(
                           call.lats, call.lons, call.width_px, call.height_px,
                           call.duration_sec, call.fps, call.presets[k])]]
    /\ UNCHANGED <<DEFAULT_MAX_FRAMES, call>>
    /\ UNCHANGED pipe_vars
    /\ UNCHANGED tile_vars

NextEstimate == Call_estimate_animation_seconds

SpecEstimate == InitEstimate /\ [][NextEstimate]_vars

\* the form fields a client may send
FormDurations == {FromInt(-1), FromInt(0)} \cup {Rat(k, 2) : k \in 1..MaxFormDurH}
FormFps == {FromInt(f) : f \in (-1)..MaxFormFps}
FormResolutions ==
    {<<"2", "x", "1">>,
     <<" ", "1", " ", "X", "2">>,
     <<"2", ":", "1">>,
     <<"n", "o", "t", "-", "a", "-", "s", "i", "z", "e">>,
     <<"0", "x", "1">>,
     <<"2", "x", "-", "1">>,
     <<"2", "x">>}
FormLineWidths == {FromInt(0), Rat(5, 2)}
FormMarkerSizes == {FromInt(0), FromInt(6)}
FormFullTrailOpacities == {Rat(-1, 10), Rat(4, 5), Rat(11, 10)}
FormLineOpacities == {Rat(-1, 10), FromInt(0), FromInt(1), Rat(11, 10)}
FormTileTypes == {"", "CyclOSM", "not-a-tile"}
\* the uploaded file: empty, without track or segment, or a track segment of
\* 0..MaxPoints points along the equator
FormGpxFiles ==
    {[kind |-> "empty"], [kind |-> "no_trk"], [kind |-> "no_trkseg"]}
    \cup {[kind |-> "track",
           lats |-> AxisLine(n)[2], lons |-> AxisLine(n)[1]] : n \in 0..MaxPoints}

\* ----------------------------------------------------------- GPX cropper
\* The first <trkseg> of a GPX file is the sequence of its child elements.
\* A child is a <trkpt> or another element; the <time> of a track point is
\* missing, a text that is no time, or a time (in whole seconds).
NoTime == [text |-> "missing", seconds |-> 0]
BadTime == [text |-> "not-a-time", seconds |-> 0]
TimeAt(seconds) == [text |-> "time", seconds |-> seconds]
TrackPoint(time) == [tag |-> "trkpt", time |-> time]
OtherElement == [tag |-> "extensions", time |-> NoTime]

\* gpx_splitter.py:133-139 inside the try of lines 165-168: the parsed time,
\* or None
parse_gpx_time_or_none(time_text) ==
    IF time_text.text = "time"
    THEN [none |-> FALSE, dt |-> time_text.seconds]
    ELSE [none |-> TRUE, dt |-> 0]

\* trkseg.findall("trkpt"), line 154: the positions of the track points
\* among the children, in document order
RECURSIVE findall_trkpt(_, _)
findall_trkpt(children, from) ==
    IF from > Len(children) THEN <<>>
    ELSE IF children[from].tag = "trkpt"
    THEN <<from>> \o findall_trkpt(children, from + 1)
    ELSE findall_trkpt(children, from + 1)

\* the first track point with a time, whatever the target
first_timed_index(times, valid_indices, k, best_i, target_dt) ==
    valid_indices[1]

\* gpx_splitter.py:172-180: the loop over valid_indices from its k-th entry
\* on, best_i being the best index so far (0: none yet)
RECURSIVE closest_index(_, _, _, _, _)
closest_index(times, valid_indices, k, best_i, target_dt) ==
    IF k > Len(valid_indices) THEN best_i
    ELSE LET i == valid_indices[k]
             diff == Abs(times[i].dt - target_dt)
         IN  IF best_i = 0 \/ diff < Abs(times[best_i].dt - target_dt)
             THEN closest_index(times, valid_indices, k + 1, i, target_dt)
             ELSE closest_index(times, valid_indices, k + 1, best_i, target_dt)

\* gpx_splitter.py:141-207; `gpx` tells whether the file has a <trkseg> and
\* holds the children of the first one.  The result holds the children of
\* the segment written to output_path, each with the position it had.
crop_gpx_by_time(gpx, start_dt, end_dt) ==
    IF ~gpx.has_trkseg
    THEN [raised |-> "No <trkseg> element found in GPX"]
    ELSE
    LET segment == gpx.trkseg
        trkpts == findall_trkpt(segment, 1)
    IN  IF trkpts = <<>>
        THEN [raised |-> "No <trkpt> elements found in <trkseg>"]
        ELSE
        LET times == [i \in DOMAIN trkpts |->
                         parse_gpx_time_or_none(segment[trkpts[i]].time)]
            valid_indices ==
                SelectSeq([i \in DOMAIN trkpts |-> i],
                          LAMBDA i : ~times[i].none)
        IN  IF valid_indices = <<>>
            THEN [raised |-> "No valid <time> elements in GPX track points"]
            ELSE
            LET first == closest_index(times, valid_indices, 1, 0, start_dt)
                second == closest_index(times, valid_indices, 1, 0, end_dt)
                idx_start == IF first > second THEN second ELSE first
                idx_end == IF first > second THEN first ELSE second
                cropped_pts == SubSeq(trkpts, idx_start, idx_end)
            IN  IF cropped_pts = <<>>
                THEN [raised |-> "No points selected after cropping"]
                ELSE [raised |-> "none",
                      trkseg |-> [k \in DOMAIN cropped_pts |->
                                     [position |-> cropped_pts[k],
                                      element |-> segment[cropped_pts[k]]]]]

\* ------------------------------------------------ cropper specification
\* the children a segment may have, and the segments of up to MaxTrackPoints
\* children; the times are not assumed to be in order
SegmentChildren ==
    {TrackPoint(t) : t \in {TimeAt(at) : at \in 0..MaxTime}
                                \cup {NoTime, BadTime}}
        \cup {OtherElement}

Segments ==
    UNION {[1..n -> SegmentChildren] : n \in 0..MaxTrackPoints}

InitCrop ==
    /\ \E gpx \in {[has_trkseg |-> FALSE, trkseg |-> <<>>]}
                        \cup {[has_trkseg |-> TRUE, trkseg |-> segment] :
                                  segment \in Segments},
          start_dt \in 0..MaxTime, end_dt \in 0..MaxTime :
           call = [fn |-> "crop_gpx_by_time", gpx |-> gpx,
                   start_dt |-> start_dt, end_dt |-> end_dt]
    /\ DEFAULT_MAX_FRAMES = BuiltinMaxFrames
    /\ ret = NotReturned
    /\ PipeIdle

Call_crop_gpx_by_time ==
    /\ call.fn = "crop_gpx_by_time"
    /\ ~ret.done
    /\ ret' = [done |-> TRUE,
               value |-> crop_gpx_by_time(call.gpx, call.start_dt,
                                          call.end_dt)]
    /\ UNCHANGED <<DEFAULT_MAX_FRAMES, call>>
    /\ UNCHANGED pipe_vars
    /\ UNCHANGED tile_vars

NextCrop == Call_crop_gpx_by_time

SpecCrop == InitCrop /\ [][NextCrop]_vars

\* ------------------------------------- the map-animate request handler
\* raise HTTPException(status_code=400, detail=...)
Reject(detail) ==
    /\ pc' = "responded"
    /\ response' = [status |-> 400, detail |-> detail]
    /\ UNCHANGED <<locals, sched, anim, ffmpeg_proc, log>>

Continue(next) ==
    /\ pc' = next
    /\ UNCHANGED <<locals, sched, anim, ffmpeg_proc, log, response>>

Frozen == UNCHANGED <<DEFAULT_MAX_FRAMES, call, ret, tile_cache, tile_requests>>

\* api/main.py:239, _validate_upload (68-71)
ValidateUpload ==
    /\ pc = "validate_upload"
    /\ \E filename \in {"", "track.gpx"} :
        /\ form' = form @@ ("gpx_file" :> filename)
        /\ IF filename = "" THEN Reject("Missing gpx_file filename")
           ELSE Continue("check_duration")
    /\ Frozen

\* api/main.py:241-242
CheckDurationLax ==
    /\ pc = "check_duration"
    /\ \E duration_seconds \in FormDurations :
        /\ form' = form @@ ("duration_seconds" :> duration_seconds)
        /\ IF duration_seconds[1] < 0
           THEN Reject("duration_seconds must be positive")
           ELSE Continue("check_fps")
    /\ Frozen

CheckDuration ==
    /\ pc = "check_duration"
    /\ \E duration_seconds \in FormDurations :
        /\ form' = form @@ ("duration_seconds" :> duration_seconds)
        /\ IF duration_seconds[1] <= 0
           THEN Reject("duration_seconds must be positive")
           ELSE Continue("check_fps")
    /\ Frozen

\* api/main.py:243-244
CheckFps ==
    /\ pc = "check_fps"
    /\ \E fps \in FormFps :
        /\ form' = form @@ ("fps" :> fps)
        /\ IF fps[1] <= 0 THEN Reject("fps must be positive")
           ELSE Continue("parse_resolution")
    /\ Frozen

\* api/main.py:246-251
ParseResolution ==
    /\ pc = "parse_resolution"
    /\ \E resolution \in FormResolutions :
        LET parsed == parse_resolution(resolution)
        IN  /\ form' = form @@ ("resolution" :> resolution)
            /\ IF parsed.raised # "none"
               THEN Reject(parsed.raised)
               ELSE IF parsed.width_px <= 0 \/ parsed.height_px <= 0
               THEN Reject("resolution must be positive")
               ELSE /\ pc' = "check_line_style"
                    /\ locals' = locals @@ ("width_px" :> parsed.width_px)
                                        @@ ("height_px" :> parsed.height_px)
                    /\ UNCHANGED <<sched, anim, ffmpeg_proc, log, response>>
    /\ Frozen

\* api/main.py:252-255
CheckLineStyle ==
    /\ pc = "check_line_style"
    /\ \E line_width \in FormLineWidths, marker_size \in FormMarkerSizes :
        /\ form' = form @@ ("line_width" :> line_width)
                        @@ ("marker_size" :> marker_size)
        /\ IF line_width[1] <= 0 THEN Reject("line_width must be positive")
           ELSE IF marker_size[1] <= 0
           THEN Reject("marker_size must be positive")
           ELSE Continue("check_opacity")
    /\ Frozen

\* api/main.py:256-258
CheckOpacity ==
    /\ pc = "check_opacity"
    /\ \E full_trail_opacity \in FormFullTrailOpacities,
          line_opacity \in FormLineOpacities :
        /\ form' = form @@ ("full_trail_opacity" :> full_trail_opacity)
                        @@ ("line_opacity" :> line_opacity)
        /\ IF RLt(full_trail_opacity, FromInt(0))
                \/ RLt(FromInt(1), full_trail_opacity)
           THEN Reject("full_trail_opacity must be between 0 and 1")
           ELSE IF RLt(line_opacity, FromInt(0)) \/ RLt(FromInt(1), line_opacity)
           THEN Reject("line_opacity must be between 0 and 1")
           ELSE Continue("resolve_tile_provider")
    /\ Frozen

\* api/main.py:259-262
ResolveTileProvider ==
    /\ pc = "resolve_tile_provider"
    /\ \E tile_type \in FormTileTypes :
        LET provider == resolve_tile_provider(tile_type)
        IN  /\ form' = form @@ ("tile_type" :> tile_type)
            /\ IF provider.raised # "none" THEN Reject(provider.raised)
               ELSE /\ pc' = "write_upload"
                    /\ locals' = locals
                           @@ ("tile_template" :> provider.template)
                           @@ ("tile_subdomains" :> provider.subdomains)
                    /\ UNCHANGED <<sched, anim, ffmpeg_proc, log, response>>
    /\ Frozen

\* api/main.py:264-267, _write_upload_to_file (74-82)
WriteUpload ==
    /\ pc = "write_upload"
    /\ \E gpx \in FormGpxFiles :
        /\ form' = form @@ ("gpx" :> gpx)
        /\ IF gpx.kind = "empty" THEN Reject("GPX file is empty")
           ELSE Continue("load_gpx")
    /\ Frozen

\* api/main.py:269-274 and the except clause of 298-299
LoadAndPrepare ==
    /\ pc = "load_gpx"
    /\ LET loaded == load_gpx_points(form.gpx)
       IN  IF loaded.raised # "none"
           THEN Reject(loaded.raised) /\ UNCHANGED form
           ELSE LET merc == latlon_to_web_mercator(loaded.lats, loaded.lons)
                    series == prepare_animation_series(
                                  merc[1], merc[2],
                                  form.duration_seconds, form.fps)
                IN  IF series.raised # "none"
                    THEN Reject(series.raised) /\ UNCHANGED form
                    ELSE /\ pc' = "fetch_basemap"
                         /\ locals' = locals @@ ("lats" :> loaded.lats)
                                             @@ ("lons" :> loaded.lons)
                         /\ sched' = series
                         /\ UNCHANGED <<form, anim, ffmpeg_proc, log, response>>
    /\ Frozen


\* --------------------------------------------------- create_animation
\* Exit statuses the encoder process can end with
ExitStatuses == 0..MaxExitStatus

Raised(kind, detail, args) == [kind |-> kind, detail |-> detail, args |-> args]

\* map_animator.py:356-429 as create_animation uses it: tiles are requested
\* and a canvas comes back.  The routes modelled lie inside the world bounds,
\* where the window is never empty and the canvas has the requested size.
fetch_basemap_image_inside_world(width_px, height_px) ==
    [raised |-> "none", size |-> <<width_px, height_px>>, tiles |-> 1]

\* PIL.ImageColor.getrgb, on the colour strings modelled
getrgb(color) ==
    IF color = "#111827" THEN [raised |-> "none", rgb |-> <<17, 24, 39>>]
    ELSE [raised |-> "ValueError: unknown color specifier"]

FormColors == {"#111827", "not-a-color"}

\* an exception in the frame loop is left to the caller with the pipe open
LeaveUnclosed == "returned"

\* map_animator.py:670: an exception in the try block enters the finally block
OnFrameLoopException == "close_stdin"

SkipFrame(frame) == frame + 2

\* map_animator.py:651: the frame after `frame` in range(total_frames)
NextFrame(frame) == frame + 1

\* the phase of the render that the position in create_animation stands for
Phase ==
    CASE pc = "fetch_basemap" -> "Init"
      [] pc \in {"static_draw", "open_encoder"} -> "BasemapReady"
      [] pc \in {"draw_frame", "write_frame"} -> "DrawFrame"
      [] pc \in {"close_stdin", "wait"} -> "Flushing"
      [] pc \in {"returned", "responded"} /\ sched # NoSchedule ->
            IF anim.exc = NoExc THEN "Done" ELSE "Failed"
      [] OTHER -> "NotRendering"

\* a step of create_animation that leaves by an exception before the try
\* statement is entered: the handler's except clause is next
RaiseBeforeTry(exc) ==
    /\ pc' = "returned"
    /\ anim' = [anim EXCEPT !.exc = exc]

\* map_animator.py:608-623
FetchBasemap ==
    /\ pc = "fetch_basemap"
    /\ LET basemap == fetch_basemap_image_inside_world(locals.width_px, locals.height_px)
       IN  /\ log' = log \o [i \in 1..basemap.tiles |-> [ev |-> "tile_fetch", arg |-> i]]
           /\ IF basemap.size # <<locals.width_px, locals.height_px>>
              THEN RaiseBeforeTry(Raised("RuntimeError",
                       "Basemap fetch did not return the requested output size.",
                       <<>>))
              ELSE /\ pc' = "static_draw"
                   /\ anim' = NoAnim
    /\ UNCHANGED <<form, locals, sched, ffmpeg_proc, response>>
    /\ Frozen

\* map_animator.py:624-640
StaticDraw ==
    /\ pc = "static_draw"
    /\ \E full_trail_color \in FormColors :
        LET rgb == getrgb(full_trail_color)
        IN  /\ form' = form @@ ("full_trail_color" :> full_trail_color)
            /\ IF rgb.raised # "none"
               THEN RaiseBeforeTry(Raised("ValueError", rgb.raised, <<>>))
               ELSE /\ pc' = "open_encoder"
                    /\ anim' = anim
    /\ UNCHANGED <<locals, sched, ffmpeg_proc, log, response>>
    /\ Frozen

\* map_animator.py:642-650, _open_ffmpeg_writer (546-578).  Popen raises
\* when there is no ffmpeg executable; otherwise stdin is a pipe, never None.
OpenEncoder ==
    /\ pc = "open_encoder"
    /\ \E installed \in BOOLEAN :
        IF ~installed
        THEN /\ RaiseBeforeTry(Raised("FileNotFoundError",
                     "[Errno 2] No such file or directory: 'ffmpeg'", <<>>))
             /\ UNCHANGED <<ffmpeg_proc, log>>
        ELSE /\ ffmpeg_proc' = [ffmpeg_proc EXCEPT !.opens = @ + 1,
                                                   !.stdin = "open"]
             /\ log' = Append(log, [ev |-> "open", arg |-> 0])
             /\ anim' = [anim EXCEPT !.frame = 0,
                                     !.last_idx = sched.frame_indices[1]]
             /\ pc' = IF sched.total_frames > 0 THEN "draw_frame"
                      ELSE "close_stdin"
    /\ UNCHANGED <<form, locals, sched, response>>
    /\ Frozen

\* the encoder process ends on its own: with an error at any time, and with
\* any status once it has seen the end of its input
EncoderExits ==
    /\ ffmpeg_proc.opens > 0
    /\ ~ffmpeg_proc.exited
    /\ \E status \in ExitStatuses :
        /\ status = 0 => ffmpeg_proc.stdin = "closed"
        /\ ffmpeg_proc' = [ffmpeg_proc EXCEPT !.exited = TRUE,
                                              !.exit_status = status]
    /\ UNCHANGED <<pc, form, locals, sched, anim, log, response>>
    /\ Frozen

\* every frame draws the whole trail up to the marker again
redraw_whole_trail(trail, last_idx, idx) ==
    [trail |-> trail \o [k \in 1..idx |-> k - 1],
     last_idx |-> IF idx > last_idx THEN idx ELSE last_idx]

\* map_animator.py:653-660: the segments [seg_idx, seg_idx + 1] for seg_idx
\* in range(last_idx, idx) are drawn onto the overlay, each named by seg_idx
draw_new_segments(trail, last_idx, idx) ==
    IF idx > last_idx
    THEN [trail |-> trail \o [k \in 1..(idx - last_idx) |-> last_idx + k - 1],
          last_idx |-> idx]
    ELSE [trail |-> trail, last_idx |-> last_idx]

\* map_animator.py:652-668: the trail segments passed since the last frame,
\* then the composite and the marker; any of the drawing calls may raise
DrawFrame ==
    /\ pc = "draw_frame"
    /\ LET idx == sched.frame_indices[anim.frame + 1]
       IN  \E raises \in BOOLEAN :
               IF raises
               THEN /\ anim' = [anim EXCEPT
                            !.exc = Raised("MemoryError", "", <<>>)]
                    /\ pc' = OnFrameLoopException
                    /\ log' = log
               ELSE /\ \E drawn \in {draw_new_segments(anim.trail,
                                                         anim.last_idx, idx)} :
                        anim' = [anim EXCEPT !.trail = drawn.trail,
                                             !.last_idx = drawn.last_idx]
                    /\ log' = Append(log, [ev |-> "draw", arg |-> anim.frame])
                    /\ pc' = "write_frame"
    /\ UNCHANGED <<form, locals, sched, ffmpeg_proc, response>>
    /\ Frozen

\* map_animator.py:669 and the loop step of 651.  stdin is a buffered
\* stream: a frame smaller than the buffer may stay in it, anything else goes
\* to the pipe, and a write to the pipe of a process that has ended raises
\* BrokenPipeError with the bytes still buffered.
WriteFrame ==
    /\ pc = "write_frame"
    /\ \E raises \in BOOLEAN, buffered \in BOOLEAN :
        /\ raises => ffmpeg_proc.exited
        /\ (~raises /\ ffmpeg_proc.exited) => buffered
        /\ ffmpeg_proc' = [ffmpeg_proc EXCEPT !.buffered = buffered]
        /\ IF raises
           THEN /\ anim' = [anim EXCEPT !.exc = Raised("BrokenPipeError",
                                "[Errno 32] Broken pipe", <<>>)]
                /\ pc' = OnFrameLoopException
                /\ log' = log
           ELSE /\ log' = Append(log, [ev |-> "write", arg |-> anim.frame])
                /\ anim' = [anim EXCEPT !.frame = NextFrame(@)]
                /\ pc' = IF NextFrame(anim.frame) < sched.total_frames
                         THEN "draw_frame" ELSE "close_stdin"
    /\ UNCHANGED <<form, locals, sched, response>>
    /\ Frozen

\* map_animator.py:670-671.  close() flushes the stream's buffer and closes
\* the pipe; when the flush fails because the process has ended, close()
\* raises after closing the pipe and the finally block is left before wait().
CloseStdin ==
    /\ pc = "close_stdin"
    /\ LET raises == ffmpeg_proc.buffered /\ ffmpeg_proc.exited
       IN  /\ ffmpeg_proc' = [ffmpeg_proc EXCEPT !.closes = @ + 1,
                                                 !.stdin = "closed",
                                                 !.buffered = FALSE]
           /\ log' = Append(log, [ev |-> "close", arg |-> 0])
           /\ IF raises
              THEN /\ anim' = [anim EXCEPT !.exc = Raised("BrokenPipeError",
                                   "[Errno 32] Broken pipe", <<>>)]
                   /\ pc' = "returned"
              ELSE /\ anim' = anim
                   /\ pc' = "wait"
    /\ UNCHANGED <<form, locals, sched, response>>
    /\ Frozen

\* map_animator.py:672-675: wait() returns once the process has ended
Wait ==
    /\ pc = "wait"
    /\ ffmpeg_proc.exited
    /\ LET return_code == ffmpeg_proc.exit_status
       IN  /\ ffmpeg_proc' = [ffmpeg_proc EXCEPT !.waits = @ + 1,
                                                 !.return_code = return_code]
           /\ log' = Append(log, [ev |-> "wait", arg |-> return_code])
           /\ anim' = IF return_code # 0
                      THEN [anim EXCEPT !.exc = Raised("RuntimeError",
                               "ffmpeg exited with status "
                                   \o ToString(return_code) \o ".",
                               <<return_code>>)]
                      ELSE anim
           /\ pc' = "returned"
    /\ UNCHANGED <<form, locals, sched, response>>
    /\ Frozen

\* api/main.py:298-305
Respond ==
    /\ pc = "returned"
    /\ response' = IF anim.exc # NoExc
                   THEN [status |-> 400, detail |-> anim.exc.detail]
                   ELSE [status |-> 200, detail |-> ""]
    /\ pc' = "responded"
    /\ UNCHANGED <<form, locals, sched, anim, ffmpeg_proc, log>>
    /\ Frozen

\* a map-animate request arrives at a server whose frame budget was read
\* from the environment at import
Init ==
    /\ DEFAULT_MAX_FRAMES \in {0, 2, BuiltinMaxFrames}
    /\ call = NoCall
    /\ ret = NotReturned
    /\ pc = "validate_upload"
    /\ form = <<>>
    /\ locals = <<>>
    /\ sched = NoSchedule
    /\ anim = NoAnim
    /\ ffmpeg_proc = NoProcess
    /\ log = <<>>
    /\ response = NoResponse
    /\ tile_cache = <<>>
    /\ tile_requests = <<>>

Next ==
    \/ ValidateUpload
    \/ CheckDuration
    \/ CheckFps
    \/ ParseResolution
    \/ CheckLineStyle
    \/ CheckOpacity
    \/ ResolveTileProvider
    \/ WriteUpload
    \/ LoadAndPrepare
    \/ FetchBasemap
    \/ StaticDraw
    \/ OpenEncoder
    \/ EncoderExits
    \/ DrawFrame
    \/ WriteFrame
    \/ CloseStdin
    \/ Wait
    \/ Respond

Spec == Init /\ [][Next]_vars


\* ------------------------------------------------- pipeline properties
Events(ev) ==
    LET IsEv(e) == e.ev = ev
    IN  SelectSeq(log, IsEv)

Exited == pc \in {"returned", "responded"}

\* C1: once the encoder has been opened, every way out of create_animation
\* (all frames written, or an exception while drawing or writing any frame)
\* has closed the encoder's input stream exactly once, and the process is
\* waited on only after that close.
C1_ClosedOnceBeforeWait ==
    /\ Len(Events("close")) = ffmpeg_proc.closes
    /\ ffmpeg_proc.closes <= 1
    /\ ffmpeg_proc.closes = 1 => ffmpeg_proc.opens = 1
    /\ (Exited /\ ffmpeg_proc.opens > 0) =>
          ffmpeg_proc.closes = 1 /\ ffmpeg_proc.stdin = "closed"
    /\ \A i \in 1..Len(log) :
          log[i].ev = "wait" => \E j \in 1..(i - 1) : log[j].ev = "close"

\* an exception while drawing the second or a later frame: closed, then waited
C1_Witness ==
    /\ Exited
    /\ anim.exc.kind = "MemoryError"
    /\ anim.frame > 0
    /\ ffmpeg_proc.closes = 1
    /\ ffmpeg_proc.waits = 1

\* C2: create_animation returns normally only if the encoder exited with
\* status zero; whenever the encoder exits with a non-zero status the render
\* fails with an error that carries that status; the encoder is never
\* started a second time within the render.
C2_AsStated ==
    /\ ffmpeg_proc.opens <= 1
    /\ (Phase = "Done") =>
          /\ ffmpeg_proc.exited
          /\ ffmpeg_proc.exit_status = 0
    /\ (Exited /\ ffmpeg_proc.exited /\ ffmpeg_proc.exit_status # 0) =>
          /\ Phase = "Failed"
          /\ anim.exc.args = <<ffmpeg_proc.exit_status>>

\* C3: a render moves through Init, BasemapReady, DrawFrame, Flushing and
\* Done in that order and never backwards, a failure ending it from whatever
\* phase it is in; no frame is written before the basemap is fetched or
\* after the input stream is closed; the frames written are 0, 1, 2, ... in
\* that order, one write each; a render that is Done has written exactly
\* total_frames frames.
PhaseOrder ==
    \/ Phase' = Phase
    \/ Phase = "NotRendering" /\ Phase' \in {"Init", "NotRendering"}
    \/ Phase = "Init" /\ Phase' \in {"BasemapReady", "Failed"}
    \/ Phase = "BasemapReady" /\ Phase' \in {"DrawFrame", "Flushing", "Failed"}
    \/ Phase = "DrawFrame" /\ Phase' = "Flushing"
    \/ Phase = "Flushing" /\ Phase' \in {"Done", "Failed"}

WritesInOrder ==
    LET writes == Events("write")
    IN  /\ \A k \in 1..Len(writes) : writes[k].arg = k - 1
        /\ \A i \in 1..Len(log) :
              log[i].ev = "write" =>
                  /\ \E j \in 1..(i - 1) : log[j].ev = "tile_fetch"
                  /\ \A j \in 1..(i - 1) : log[j].ev # "close"
        /\ writes # <<>> => Phase \in {"DrawFrame", "Flushing", "Done", "Failed"}
        /\ Phase \in {"Init", "BasemapReady"} => writes = <<>>
        /\ sched # NoSchedule => Len(writes) <= sched.total_frames
        /\ Phase = "Done" => Len(writes) = sched.total_frames

C3_LinearRender == [][PhaseOrder]_vars /\ []WritesInOrder

\* a finished render of three frames
C3_Witness ==
    /\ Phase = "Done"
    /\ sched.total_frames = 3
    /\ Len(Events("write")) = 3
    /\ ffmpeg_proc.waits = 1

\* C4: a map-animate request with an unparseable or non-positive resolution,
\* a non-positive duration or fps, an opacity outside [0, 1], an unknown tile
\* provider or a route of fewer than 2 points is rejected, and no tile has
\* been fetched, no frame rendered and no encoder started for it.
Has(field) == field \in DOMAIN form

BadResolution(resolution) ==
    LET parsed == parse_resolution(resolution)
    IN  \/ parsed.raised # "none"
        \/ parsed.width_px <= 0
        \/ parsed.height_px <= 0

BadOpacity(opacity) == RLt(opacity, FromInt(0)) \/ RLt(FromInt(1), opacity)

InputError ==
    \/ Has("duration_seconds") /\ RLeq(form.duration_seconds, FromInt(0))
    \/ Has("fps") /\ RLeq(form.fps, FromInt(0))
    \/ Has("resolution") /\ BadResolution(form.resolution)
    \/ Has("full_trail_opacity") /\ BadOpacity(form.full_trail_opacity)
    \/ Has("line_opacity") /\ BadOpacity(form.line_opacity)
    \/ Has("tile_type") /\ form.tile_type \notin {"", "CyclOSM"}
    \/ Has("gpx") /\ form.gpx.kind = "track" /\ Len(form.gpx.lats) < 2

C4_RejectedBeforeWork ==
    InputError =>
        /\ log = <<>>
        /\ ffmpeg_proc = NoProcess
        /\ anim = NoAnim
        /\ Phase = "NotRendering"
        /\ pc \in {"load_gpx", "responded"}
        /\ pc = "responded" => response.status = 400

\* a request whose only fault is a route of one point
C4_Witness ==
    /\ pc = "responded"
    /\ response.status = 400
    /\ Has("gpx")
    /\ form.gpx.kind = "track"
    /\ Len(form.gpx.lats) = 1
    /\ log = <<>>


\* create_animation has ended, and its frame loop was left by an exception:
\* the stream was closed before every frame had been written
FrameLoopFailed ==
    /\ Exited
    /\ sched # NoSchedule
    /\ sched.raised = "none"
    /\ ffmpeg_proc.closes = 1
    /\ Len(Events("write")) < sched.total_frames

FrameLoopExceptions == {"MemoryError", "BrokenPipeError"}

\* after a frame-loop exception create_animation does not report success,
\* and with an encoder that exited zero the exception is the one raised
FailsAfterFrameLoopException ==
    FrameLoopFailed =>
        /\ Phase = "Failed"
        /\ (ffmpeg_proc.exited /\ ffmpeg_proc.exit_status = 0) =>
               anim.exc.kind \in FrameLoopExceptions

\* C29 as stated: if an exception is raised while drawing or writing a
\* frame, create_animation still fails: with the original exception when
\* the encoder then exits zero, with the encoder exit-status error when the
\* encoder exits non-zero; never with success
C29_AsStated ==
    /\ FailsAfterFrameLoopException
    /\ (FrameLoopFailed /\ ffmpeg_proc.exited /\ ffmpeg_proc.exit_status # 0) =>
           /\ anim.exc.kind = "RuntimeError"
           /\ anim.exc.args = <<ffmpeg_proc.exit_status>>

\* the segments seg, seg + 1, ... up to but not including `upto`, in order
SegmentsFrom(seg, upto) == [k \in 1..(upto - seg) |-> seg + k - 1]

\* while create_animation runs its frame loop or has left it
InOrAfterFrameLoop ==
    /\ sched # NoSchedule
    /\ sched.raised = "none"
    /\ ffmpeg_proc.opens > 0

\* the overlay holds the segments from the first frame's index to the last
\* drawn index, once each; after frame f was composed that index is
\* frame_indices[f], and after the last frame every segment is there
TrailIsDelta ==
    InOrAfterFrameLoop =>
        /\ anim.trail = SegmentsFrom(sched.frame_indices[1], anim.last_idx)
        /\ pc = "write_frame" =>
               anim.last_idx = sched.frame_indices[anim.frame + 1]
        /\ (anim.frame > 0 /\ pc # "write_frame") =>
               anim.last_idx \in {sched.frame_indices[anim.frame],
                                  sched.frame_indices[Min2(anim.frame + 1,
                                                           sched.total_frames)]}
        /\ anim.frame = sched.total_frames =>
               anim.trail = SegmentsFrom(0, Len(sched.xs) - 1)

LastIndexGrows == anim'.last_idx >= anim.last_idx

\* C23: the trail overlay is append-only and incremental: the last drawn
\* index never decreases, each route segment is drawn onto the overlay at
\* most once in a render, after frame f was composed the overlay holds
\* exactly the segments [i, i+1] with frame_indices[0] <= i <
\* frame_indices[f], and after the last frame every segment of the
\* resampled route
C23_TrailIncremental == []TrailIsDelta /\ [][LastIndexGrows]_vars

\* a render that drew its last frame, the trail having grown in more than
\* one frame
C23_Witness ==
    /\ InOrAfterFrameLoop
    /\ anim.frame = sched.total_frames
    /\ Len(anim.trail) >= 2
    /\ anim.last_idx = Len(sched.xs) - 1

\* ----------------------------------------------------- zoom properties
ZoomReturned == call.fn = "choose_zoom_for_bounds" /\ ret.done

\* the pixel span of a bounding box at a zoom, for a box away from the pole
SpanX(a, zoom) ==
    RAbs(RSub(lonlat_to_pixel(a.max_lon, a.min_lat, zoom).x,
              lonlat_to_pixel(a.min_lon, a.max_lat, zoom).x))

SpanY(a, zoom) ==
    RAbs(RSub(lonlat_to_pixel(a.max_lon, a.min_lat, zoom).y,
              lonlat_to_pixel(a.min_lon, a.max_lat, zoom).y))

FitsAt(a, zoom) ==
    /\ RLeq(SpanX(a, zoom), FromInt(a.width_px))
    /\ RLeq(SpanY(a, zoom), FromInt(a.height_px))

HighestFittingZoom(a, r) ==
    /\ r.raised = "none"
    /\ r.zoom \in 0..a.max_zoom
    /\ \A z \in (r.zoom + 1)..a.max_zoom : ~FitsAt(a, z)
    /\ FitsAt(a, r.zoom) \/ (r.zoom = 0 /\ \A z \in 0..a.max_zoom : ~FitsAt(a, z))

\* C16: choose_zoom_for_bounds never fails and returns a zoom in 0..max_zoom:
\* the highest zoom at which the box's pixel span fits (width_px, height_px)
\* on both axes, and 0 when no zoom fits.
C16_AsStated ==
    ZoomReturned =>
        /\ HighestFittingZoom(call.first, ret.value[1])
        /\ HighestFittingZoom(call.second, ret.value[2])

\* the latitude lies within +/-MAX_MERCATOR_LAT (85.05112878 degrees), the
\* latitudes of rows 0 and 256 of the world at zoom 0
WithinMercatorLimit(lat) ==
    /\ lat # SouthPole
    /\ RLeq(FromInt(0), mercator_row(lat))
    /\ RLeq(mercator_row(lat), FromInt(256))

\* C26 as the specification states it: for a route with latitudes in
\* [-90, 90], every latitude that reaches a log/tan step, here in
\* lonlat_to_pixel as the zoom selector calls it, has been clamped to within
\* +/-85.05112878 degrees first
C26_AsStated ==
    ZoomReturned =>
        \A lat \in log_tan_latitudes(call.first.min_lat, call.first.max_lat) :
            WithinMercatorLimit(lat)

\* the second call is for a box at least as wide and as high in pixels and
\* a canvas at most as wide and as high, with the same max_zoom
Widens(a, b) ==
    /\ b.max_zoom = a.max_zoom
    /\ RLeq(SpanX(a, 0), SpanX(b, 0))
    /\ RLeq(SpanY(a, 0), SpanY(b, 0))
    /\ b.width_px <= a.width_px
    /\ b.height_px <= a.height_px

BothChosen == ret.value[1].raised = "none" /\ ret.value[2].raised = "none"

\* C17: for a fixed max_zoom, a box with a larger pixel span on either axis
\* or a smaller canvas never gets a higher zoom.
C17_ZoomMonotonic ==
    (ZoomReturned /\ BothChosen /\ Widens(call.first, call.second)) =>
        ret.value[2].zoom <= ret.value[1].zoom

\* a box widened in longitude that has to drop a zoom level
C17_Witness ==
    /\ ZoomReturned
    /\ BothChosen
    /\ Widens(call.first, call.second)
    /\ RLt(call.first.max_lon, call.second.max_lon)
    /\ call.second.width_px = call.first.width_px
    /\ ret.value[1].zoom > 0
    /\ ret.value[2].zoom < ret.value[1].zoom

\* ------------------------------------------------ scheduler properties
Returned(fn) == ret.done /\ call.fn = fn

\* a schedule has been returned: by prepare_animation_data on the route it
\* was given, or by prepare_animation_series on the route it resampled
ScheduleReturned ==
    /\ ret.done
    /\ call.fn \in {"prepare_animation_data", "prepare_animation_series"}
    /\ ret.value.raised = "none"

ResampledLen ==
    IF call.fn = "prepare_animation_series" THEN Len(ret.value.xs)
    ELSE Len(call.xs)

\* duration_sec * effective fps of the returned schedule
FrameProduct == RMul(call.duration_sec, ret.value.fps)

\* C5: for every route of at least 2 points and every duration and fps the
\* schedule is returned, and its frame_indices is non-decreasing, starts at
\* 0, ends at the last index of the (resampled) route and has exactly
\* total_frames entries.
C5_FrameIndicesShape ==
    (/\ ret.done
     /\ call.fn \in {"prepare_animation_data", "prepare_animation_series"}
     /\ Len(call.xs) >= 2)
    => /\ ret.value.raised = "none"
       /\ LET fi == ret.value.frame_indices
          IN  /\ Len(fi) = ret.value.total_frames
              /\ fi[1] = 0
              /\ fi[Len(fi)] = ResampledLen - 1
              /\ \A i \in 1..(Len(fi) - 1) : fi[i] <= fi[i + 1]

\* a resampling schedule with more frames than route points
C5_Witness ==
    /\ Returned("prepare_animation_series")
    /\ ret.value.raised = "none"
    /\ Len(call.xs) = 4
    /\ Len(ret.value.xs) = 3
    /\ ret.value.total_frames = 3
    /\ ret.value.frame_indices = <<0, 1, 2>>

\* C6 as stated: the effective fps is min(fps, max_frames / duration) whenever
\* the duration is positive, and the requested fps otherwise.
C6_AsStated ==
    Returned("_resolve_effective_fps") =>
        LET d == call.duration_sec
            f == call.fps
        IN  ret.value = IF d[1] > 0
                        THEN RMin(f, Rat(DEFAULT_MAX_FRAMES * d[2], d[1]))
                        ELSE f

\* C6 (amended): when both the duration and the frame budget are positive the
\* effective fps is the smaller of the requested fps and budget / duration
\* (so never above budget / duration); otherwise it is the requested fps.
\* 10 s at 30 fps under a budget of 20 gives 2 fps and 20 frames.
C6_EffectiveFps ==
    /\ Returned("_resolve_effective_fps") =>
        LET d == call.duration_sec
            f == call.fps
            v == ret.value
        IN  IF d[1] > 0 /\ DEFAULT_MAX_FRAMES > 0
            THEN /\ RLeq(v, f)
                 /\ RLeq(RMul(v, d), FromInt(DEFAULT_MAX_FRAMES))
                 /\ v = f \/ RMul(v, d) = FromInt(DEFAULT_MAX_FRAMES)
            ELSE v = f
    /\ (/\ ret.done
        /\ call.fn \in {"_resolve_effective_fps", "prepare_animation_series"}
        /\ call.duration_sec = FromInt(10)
        /\ call.fps = FromInt(30)
        /\ DEFAULT_MAX_FRAMES = 20)
       => IF call.fn = "_resolve_effective_fps"
          THEN ret.value = FromInt(2)
          ELSE ret.value.fps = FromInt(2) /\ ret.value.total_frames = 20

\* the cap is active: the budget lowers the requested fps
C6_Witness ==
    /\ Returned("_resolve_effective_fps")
    /\ call.duration_sec = FromInt(10)
    /\ call.fps = FromInt(30)
    /\ DEFAULT_MAX_FRAMES = 20
    /\ ret.value = FromInt(2)

\* C7 as stated: for every positive duration and fps and every configured
\* budget, total_frames <= max(budget, 2).
C7_AsStated ==
    (/\ Returned("prepare_animation_series")
     /\ ret.value.raised = "none"
     /\ call.duration_sec[1] > 0
     /\ call.fps[1] > 0)
    => ret.value.total_frames <= Max2(DEFAULT_MAX_FRAMES, 2)

\* C7 (amended): for every positive duration and fps and every positive
\* configured budget, total_frames <= max(budget, 2); a budget of zero or less
\* switches the cap off.
C7_FrameBudget ==
    (/\ Returned("prepare_animation_series")
     /\ ret.value.raised = "none"
     /\ call.duration_sec[1] > 0
     /\ call.fps[1] > 0
     /\ DEFAULT_MAX_FRAMES > 0)
    => ret.value.total_frames <= Max2(DEFAULT_MAX_FRAMES, 2)

\* a request for more frames than the budget allows is cut down to the budget
C7_Witness ==
    /\ Returned("prepare_animation_series")
    /\ ret.value.raised = "none"
    /\ DEFAULT_MAX_FRAMES = 3
    /\ Trunc(RMul(call.duration_sec, call.fps)) = 8
    /\ ret.value.total_frames = 3

\* C8 as stated: total_frames = max(round(duration * effective fps), 2), the
\* product rounded to the nearest integer (under either rule for ties).
C8_AsStated ==
    ScheduleReturned =>
        \/ ret.value.total_frames = Max2(RoundNearest(FrameProduct), 2)
        \/ ret.value.total_frames = Max2(PyRound(FrameProduct), 2)

\* C8 (amended): total_frames = max(trunc(duration * effective fps), 2): the
\* product is truncated toward zero, not rounded to the nearest integer, and
\* the result is never below 2.
C8_TotalFrames ==
    ScheduleReturned =>
        LET p == FrameProduct
            t == ret.value.total_frames
        IN  /\ t >= 2
            /\ IF RLt(p, FromInt(2)) THEN t = 2
               ELSE RLeq(FromInt(t), p) /\ RLt(p, FromInt(t + 1))

\* a product of 3.75 frames gives 3 frames, where rounding would give 4
C8_Witness ==
    /\ ScheduleReturned
    /\ FrameProduct = Rat(15, 4)
    /\ ret.value.total_frames = 3

\* C9 as stated: resample(route, n) returns the route unchanged when
\* n >= len(route), and otherwise exactly n points whose first and last are
\* the route's first and last.
C9_AsStated ==
    Returned("resample_route") =>
        LET n == call.target_points
            len == Len(call.xs)
            out == ret.value
        IN  IF n >= len THEN out = <<call.xs, call.ys>>
            ELSE /\ Len(out[1]) = n
                 /\ Len(out[2]) = n
                 /\ n >= 1 => /\ out[1][1] = call.xs[1]
                              /\ out[2][1] = call.ys[1]
                              /\ out[1][n] = call.xs[len]
                              /\ out[2][n] = call.ys[len]

\* C9 (amended): resample(route, n) returns the route unchanged when
\* n >= len(route) or n < 2; when 2 <= n < len(route) it returns exactly n
\* points whose first and last are the route's first and last.
C9_Resample ==
    Returned("resample_route") =>
        LET n == call.target_points
            len == Len(call.xs)
            out == ret.value
        IN  IF n >= len \/ n < 2 THEN out = <<call.xs, call.ys>>
            ELSE /\ Len(out[1]) = n
                 /\ Len(out[2]) = n
                 /\ out[1][1] = call.xs[1]
                 /\ out[2][1] = call.ys[1]
                 /\ out[1][n] = call.xs[len]
                 /\ out[2][n] = call.ys[len]

\* a 4-point route with a corner and a repeated end point, resampled to 3
C9_Witness ==
    /\ Returned("resample_route")
    /\ call.target_points = 3
    /\ call.xs = <<FromInt(0), FromInt(2), FromInt(2), FromInt(2)>>
    /\ call.ys = <<FromInt(0), FromInt(0), FromInt(1), FromInt(1)>>
    /\ ret.value = <<<<FromInt(0), Rat(3, 2), FromInt(2)>>,
                     <<FromInt(0), FromInt(0), FromInt(1)>>>>

\* C10: prepare_animation_series returns a resampled route of exactly
\* min(len(route), total_frames) points, total_frames being the frame count it
\* returns: never more points than frames, and a route shorter than the frame
\* count comes back unchanged.
C10_ResampledLength ==
    (Returned("prepare_animation_series") /\ ret.value.raised = "none") =>
        LET len == Len(call.xs)
            t == ret.value.total_frames
        IN  /\ Len(ret.value.xs) = Min2(len, t)
            /\ Len(ret.value.ys) = Min2(len, t)
            /\ Len(ret.value.xs) <= t
            /\ len < t => ret.value.xs = call.xs /\ ret.value.ys = call.ys

\* a 4-point route cut down to the 3 frames of the schedule
C10_Witness ==
    /\ Returned("prepare_animation_series")
    /\ ret.value.raised = "none"
    /\ Len(call.xs) = 4
    /\ FrameProduct = Rat(15, 4)
    /\ ret.value.total_frames = 3
    /\ Len(ret.value.xs) = 3

\* C27: in the schedule of prepare_animation_series consecutive frame
\* indices differ by at most 1, the resampled route having at most
\* total_frames points: every index of the resampled route is the marker
\* position of some frame, and a frame draws at most one new trail segment
C27_FrameIndicesStepByOne ==
    (Returned("prepare_animation_series") /\ ret.value.raised = "none") =>
        LET fi == ret.value.frame_indices
        IN  /\ Len(ret.value.xs) <= ret.value.total_frames
            /\ \A f \in 1..(Len(fi) - 1) : fi[f + 1] - fi[f] \in {0, 1}
            /\ {fi[f] : f \in DOMAIN fi} = 0..(Len(ret.value.xs) - 1)

\* a route thinned out to the frame count, and a route of three points
\* shown by more frames than it has points
C27_Witness ==
    /\ Returned("prepare_animation_series")
    /\ ret.value.raised = "none"
    /\ \/ /\ Len(call.xs) > Len(ret.value.xs)
          /\ Len(ret.value.xs) = ret.value.total_frames
          /\ ret.value.total_frames >= 3
       \/ /\ Len(ret.value.xs) >= 3
          /\ ret.value.total_frames > Len(ret.value.xs)
          /\ \E f \in 1..(ret.value.total_frames - 1) :
                ret.value.frame_indices[f + 1] = ret.value.frame_indices[f]

\* ------------------------------------------------ resolution properties
ResolutionReturned == call.fn = "parse_resolution" /\ ret.done

\* a decimal numeral of a positive integer
PositiveNumeral(str) ==
    /\ str # <<>>
    /\ \A i \in 1..Len(str) : str[i] \in {"0", "1", "2"}
    /\ \E i \in 1..Len(str) : str[i] # "0"

\* the text, lower-cased and without spaces, reads {width}{sep}{height} for
\* a separator of `seps`, width and height being positive integers
HasForm(res_str, seps) ==
    LET str == RemoveSpaces(StrLower(res_str))
    IN  \E i \in 1..Len(str) :
            /\ str[i] \in seps
            /\ PositiveNumeral(SubSeq(str, 1, i - 1))
            /\ PositiveNumeral(SubSeq(str, i + 1, Len(str)))

\* C19 as stated: a resolution is accepted only in the forms
\* "{width}x{height}" and "{width},{height}" with positive integers
C19_AsStated ==
    (ResolutionReturned /\ ret.status = 0) => HasForm(call.res_str, {"x", ","})

\* C19, amended: a resolution is accepted exactly when it reads
\* {width}{sep}{height} with sep one of "x", "," and the multiplication sign
\* and width, height positive integers, and then those are the dimensions
\* parsed; every other string is answered with 400
C19_ResolutionForms ==
    ResolutionReturned =>
        /\ ret.status = 0 <=> HasForm(call.res_str, {"x", ",", "U+00D7"})
        /\ ret.status # 0 => ret.status = 400
        /\ ret.status = 0 =>
               LET str == RemoveSpaces(StrLower(call.res_str))
               IN  \E i \in 1..Len(str) :
                       /\ ret.value.width_px = DigitsValue(SubSeq(str, 1, i - 1))
                       /\ ret.value.height_px =
                              DigitsValue(SubSeq(str, i + 1, Len(str)))

C19_Witness ==
    /\ ResolutionReturned
    /\ call.res_str = <<"2", "U+00D7", "1">>
    /\ ret.status = 0
    /\ ret.value.width_px = 2 /\ ret.value.height_px = 1

\* ---------------------------------------------- configuration properties
Imported == call.fn = "import map_animator" /\ ret.done

\* the text is not a value the option can take
NotAnInteger(var) == var.set /\ PyInt(var.raw).raised # "none"
NotANumber(var) == var.set /\ PyFloat(var.raw).raised # "none"
NotAPreset(var) ==
    var.set /\ PresetStripLower(var.raw) \notin DOMAIN FFMPEG_PRESET_SPEED
NoSubdomain(var) == var.set /\ \A i \in 1..Len(var.raw) : var.raw[i] = ""

\* every option given an invalid value has its built-in default
FallsBack ==
    LET e == call.environ
        c == ret.config
    IN  /\ NotAnInteger(e.MAP_ANIM_FFMPEG_CRF) =>
               c.DEFAULT_FFMPEG_CRF = BuiltinFfmpegCrf
        /\ NotAnInteger(e.MAP_ANIM_FFMPEG_THREADS) =>
               c.DEFAULT_FFMPEG_THREADS = BuiltinFfmpegThreads
        /\ NotAnInteger(e.MAP_ANIM_MAX_FRAMES) =>
               /\ c.DEFAULT_MAX_FRAMES = BuiltinMaxFrames
               /\ DEFAULT_MAX_FRAMES = BuiltinMaxFrames
        /\ NotAPreset(e.MAP_ANIM_FFMPEG_PRESET) => ret.preset = "veryfast"
        /\ NoSubdomain(e.MAP_TILE_SUBDOMAINS) =>
               c.DEFAULT_TILE_SUBDOMAINS = <<"a", "b", "c">>
        /\ NotANumber(e.MAP_TILE_TIMEOUT_SECONDS) =>
               c.TILE_REQUEST_TIMEOUT = FromInt(BuiltinTileTimeout)

\* C18 as stated: whatever values the configuration options are given,
\* loading the program succeeds, and every option given an invalid value has
\* its built-in default
C18_AsStated == Imported => (ret.raised = "none" /\ FallsBack)

\* the part of C18 that holds: an import that succeeds has fallen back to
\* the default for every invalid option
C18_FallsBackWhenLoaded == (Imported /\ ret.raised = "none") => FallsBack

\* --------------------------------------------------- estimate properties
Estimated == call.fn = "estimate_animation_seconds" /\ ret.done

SlownessRank(preset) ==
    CHOOSE k \in DOMAIN PresetsBySlowness : PresetsBySlowness[k] = preset

IsPreset(preset) ==
    \E k \in DOMAIN PresetsBySlowness : PresetsBySlowness[k] = preset

\* C20: for one route, resolution, duration and fps, the estimate under a
\* slower encoder preset is never smaller than under a faster one
C20_EstimateMonotonic ==
    (/\ Estimated
     /\ IsPreset(call.presets[1]) /\ IsPreset(call.presets[2])
     /\ SlownessRank(call.presets[1]) <= SlownessRank(call.presets[2])) =>
        /\ ret.value[1].raised = "none"
        /\ ret.value[2].raised = "none"
        /\ RLeq(ret.value[1].seconds, ret.value[2].seconds)

\* the slowest preset yields a strictly larger estimate than the fastest
C20_Witness ==
    /\ Estimated
    /\ call.presets = <<"ultrafast", "veryslow">>
    /\ ret.value[1].raised = "none"
    /\ ret.value[2].raised = "none"
    /\ RLt(ret.value[1].seconds, ret.value[2].seconds)
    /\ RLt(ret.value[2].seconds, FromInt(600))

\* C21: whenever estimate_animation_seconds returns a value, the value lies
\* between 2 and 600 seconds, whatever the route, the resolution, the
\* duration, the fps and the preset
C21_EstimateBounded ==
    Estimated =>
        \A k \in 1..2 :
            ret.value[k].raised = "none" =>
                /\ RLeq(FromInt(2), ret.value[k].seconds)
                /\ RLeq(ret.value[k].seconds, FromInt(600))

\* one render is estimated under the upper bound and, with a slower
\* preset, at the bound
C21_Witness ==
    /\ Estimated
    /\ ret.value[1].raised = "none"
    /\ ret.value[2].raised = "none"
    /\ RLt(FromInt(2), ret.value[1].seconds)
    /\ RLt(ret.value[1].seconds, FromInt(600))
    /\ ret.value[2].seconds = FromInt(600)

\* --------------------------------------------------- basemap properties
BasemapReturned == call.fn = "fetch_basemap_image" /\ ret.done
BasemapBuilt == BasemapReturned /\ ret.value.raised = "none"

WorldPx == TILE_SIZE * Pow2(ret.window.zoom)

\* the canvas columns (rows) next to an edge of the canvas, of a tile or of
\* the world: between two of them the canvas shows one picture
EdgeOffsets(first, size_px) ==
    {i \in {0, size_px - 1}
           \cup {k * TILE_SIZE - first + e :
                    k \in 0..Pow2(ret.window.zoom), e \in {-1, 0}} :
        0 <= i /\ i < size_px}

\* the tile holding world pixel (wx, wy) was asked from the network and did
\* not arrive as an image
TileFailed(wx, wy) ==
    LET t == ret.window.tile_bounds
        tiles_high == t.max_y_tile - t.min_y_tile + 1
        tile_index == (wx \div TILE_SIZE - t.min_x_tile) * tiles_high
                      + (wy \div TILE_SIZE - t.min_y_tile)
    IN  ret.outcomes[tile_index + 1] # "png"

\* what canvas pixel (i, j) has to show
CanvasPixelRight(i, j) ==
    LET wx == ret.window.desired_window.left + i
        wy == ret.window.desired_window.top + j
        shown == PixelAt(ret.value.image, i, j)
    IN  IF wx < 0 \/ wx >= WorldPx \/ wy < 0 \/ wy >= WorldPx
        THEN shown.src = PLACEHOLDER
        ELSE IF TileFailed(wx, wy)
        THEN shown.src = PLACEHOLDER
        ELSE /\ shown.src = TilePicture(ret.window.zoom, wx \div TILE_SIZE,
                                        wy \div TILE_SIZE)
             /\ shown.u = wx % TILE_SIZE
             /\ shown.v = wy % TILE_SIZE

\* C11: whichever tiles fail, the canvas returned has exactly the requested
\* size; its pixels outside the world and those of failed tiles have the
\* placeholder colour, and the others show their tile's pixel
C11_CanvasExact ==
    BasemapBuilt =>
        /\ ret.value.image.size = <<call.args.width_px, call.args.height_px>>
        /\ \A i \in EdgeOffsets(ret.window.desired_window.left,
                                call.args.width_px),
              j \in EdgeOffsets(ret.window.desired_window.top,
                                call.args.height_px) :
               CanvasPixelRight(i, j)

\* a window reaching beyond the world, over several tiles of which some
\* failed and some arrived
C11_Witness ==
    /\ BasemapBuilt
    /\ ret.window.desired_window # ret.window.fetch_window
    /\ Len(ret.outcomes) >= 2
    /\ \E k \in DOMAIN ret.outcomes : ret.outcomes[k] = "error"
    /\ \E k \in DOMAIN ret.outcomes : ret.outcomes[k] = "garbage"
    /\ \E k \in DOMAIN ret.outcomes : ret.outcomes[k] = "png"
    /\ ret.value.image.size = <<call.args.width_px, call.args.height_px>>

\* every tile of the render failed
C11_AllFailed ==
    /\ BasemapBuilt
    /\ Len(ret.outcomes) >= 2
    /\ \A k \in DOMAIN ret.outcomes : ret.outcomes[k] # "png"

\* box a lies inside box b
BoxInside(a, b) ==
    /\ b.left <= a.left /\ a.right <= b.right
    /\ b.top <= a.top /\ a.bottom <= b.bottom

\* the square of world pixels covered by the tiles fetched
MosaicBox ==
    LET t == ret.window.tile_bounds
    IN  Box(t.min_x_tile * TILE_SIZE, t.min_y_tile * TILE_SIZE,
            (t.max_x_tile + 1) * TILE_SIZE, (t.max_y_tile + 1) * TILE_SIZE)

\* C24: in the basemap builder the desired window is exactly width_px by
\* height_px, the clamped window is not empty and lies inside the desired
\* window and the world, the tiles fetched are tiles of the world and cover
\* the clamped window, and canvas pixel (i, j) shows what the mosaic holds
\* for world pixel (left + i, top + j) when that pixel is inside the world,
\* the placeholder colour otherwise
C24_WindowGeometry ==
    BasemapBuilt =>
        LET d == ret.window.desired_window
            f == ret.window.fetch_window
        IN  /\ d.right - d.left = call.args.width_px
            /\ d.bottom - d.top = call.args.height_px
            /\ ~BoxEmpty(f)
            /\ BoxInside(f, d)
            /\ BoxInside(f, Box(0, 0, WorldPx, WorldPx))
            /\ f = BoxMeet(d, Box(0, 0, WorldPx, WorldPx))
            /\ BoxInside(f, MosaicBox)
            /\ BoxInside(MosaicBox, Box(0, 0, WorldPx, WorldPx))
            /\ \A i \in EdgeOffsets(d.left, call.args.width_px),
                  j \in EdgeOffsets(d.top, call.args.height_px) :
                   CanvasPixelRight(i, j)

\* a window that leaves the world on two sides, over several tiles that
\* all arrived
C24_Witness ==
    /\ BasemapBuilt
    /\ ret.window.desired_window.top < 0
    /\ ret.window.desired_window.left < 0
    /\ TilesNeeded(ret.window) >= 2
    /\ \A k \in DOMAIN ret.outcomes : ret.outcomes[k] = "png"
    /\ PixelAt(ret.value.image, 0, 0).src = PLACEHOLDER
    /\ PixelAt(ret.value.image, call.args.width_px - 1,
               call.args.height_px - 1).src # PLACEHOLDER

ClampedWindowEmpty ==
    ret.window.raised
        = "RuntimeError: Computed basemap window does not intersect world bounds."

\* C12 as stated: fetch_basemap_image raises exactly when the requested
\* window clamped to the world is empty
C12_AsStated ==
    BasemapReturned => (ret.value.raised # "none" <=> ClampedWindowEmpty)

\* the part of C12 that holds: a failure of a tile never leaves
\* fetch_basemap_image, and an empty clamped window always does
C12_TileFailuresContained ==
    BasemapReturned =>
        /\ ClampedWindowEmpty => ret.value.raised = ret.window.raised
        /\ ret.window.raised = "none" => ret.value.raised = "none"

\* the Mercator ordinate of a row at zoom 0, in the world or beyond it
MercatorOrdinate(row) ==
    RMul(FromInt(180),
         RSub(FromInt(1), RDiv(RMul(FromInt(2), row), FromInt(256))))

\* the corners of the bounding box that lie in the world: route points
CornerLatitudes ==
    {lat \in {call.args.min_lat, call.args.max_lat} :
        /\ lat # SouthPole
        /\ RLeq(FromInt(0), mercator_row(lat))
        /\ RLeq(mercator_row(lat), FromInt(256))}

\* the compositor draws the point where the basemap shows it
DrawnWhereShown(lat, lon) ==
    LET d == ret.window.desired_window
        world == lonlat_to_pixel(lon, lat, ret.window.zoom)
        merc == latlon_to_web_mercator(<<lat>>, <<lon>>)
        drawn == _project_points_to_pixels(merc[1][1], merc[2][1],
                                           ret.value.extent,
                                           call.args.width_px,
                                           call.args.height_px)
    IN  /\ drawn[1] = RSub(world.x, FromInt(d.left))
        /\ drawn[2] = RSub(world.y, FromInt(d.top))

ExtentOfDesiredWindow ==
    LET d == ret.window.desired_window
        n == Pow2(ret.window.zoom)
        e == ret.value.extent
    IN  /\ e.max_y = MercatorOrdinate(Rat(d.top, n))
        /\ e.min_y = MercatorOrdinate(Rat(d.bottom, n))
        /\ e.min_x = RSub(Rat(360 * d.left, 256 * n), FromInt(180))
        /\ e.max_x = RSub(Rat(360 * d.right, 256 * n), FromInt(180))

\* C15 as stated: the extent returned is that of the unclamped window on
\* both axes, and a route point at world pixel (px, py) is drawn at canvas
\* pixel (px - left, py - top), padded canvas or not
C15_AsStated ==
    BasemapBuilt =>
        /\ ExtentOfDesiredWindow
        /\ \A lat \in CornerLatitudes :
           \A lon \in {call.args.min_lon, call.args.max_lon} :
               DrawnWhereShown(lat, lon)

\* the part of C15 that holds: windows that stay inside the world from top
\* to bottom, padded on the sides or not
C15_AlignedInsideWorldRows ==
    (/\ BasemapBuilt
     /\ ret.window.desired_window.top >= 0
     /\ ret.window.desired_window.bottom <= WorldPx) =>
        /\ ExtentOfDesiredWindow
        /\ \A lat \in CornerLatitudes :
           \A lon \in {call.args.min_lon, call.args.max_lon} :
               DrawnWhereShown(lat, lon)

\* ------------------------------------------------ tile cache properties
\* the request brought bytes, from the network or from the cache
BroughtBytes(k) == tile_requests[k].data \in {"png", "garbage"}

\* request j was answered by a download and request k asks for the same URL
DownloadedBefore(j, k) ==
    /\ j < k
    /\ tile_requests[j].url = tile_requests[k].url
    /\ tile_requests[j].source = "network"
    /\ BroughtBytes(j)

\* C13 as the specification states it: each resolved tile URL is downloaded
\* at most once in a process, every later request for it is served from
\* the cache
C13_AsStated ==
    \A j \in DOMAIN tile_requests : \A k \in DOMAIN tile_requests :
        DownloadedBefore(j, k) => tile_requests[k].source = "cache"

\* the URL of request k brought bytes before, and since it last did, fewer
\* URLs than the cache holds have
RecentlyUsed(k) ==
    LET used == {j \in 1..(k - 1) :
                    /\ tile_requests[j].url = tile_requests[k].url
                    /\ BroughtBytes(j)}
    IN  /\ used # {}
        /\ LET last == CHOOSE j \in used : \A i \in used : i <= j
               since == {tile_requests[m].url :
                            m \in {m \in (last + 1)..(k - 1) : BroughtBytes(m)}}
           IN  Cardinality(since) < MaxCachedTiles

\* C13: over any sequence of renders in one process, a request for a tile
\* URL is served from the cache exactly when the URL was downloaded before
\* and is still among the most recently used ones the cache has room for;
\* otherwise it goes to the network, again if need be
C13_CachedWhileRecent ==
    \A k \in DOMAIN tile_requests :
        (tile_requests[k].source = "cache") <=> RecentlyUsed(k)

\* a later render was served from the cache what an earlier one downloaded,
\* the cache being full
C13_Witness ==
    /\ Len(tile_cache) = MaxCachedTiles
    /\ \E j \in DOMAIN tile_requests : \E k \in DOMAIN tile_requests :
        /\ DownloadedBefore(j, k)
        /\ tile_requests[k].source = "cache"
        /\ \E m \in DOMAIN tile_requests :
            /\ m > j
            /\ tile_requests[m].source = "network"
            /\ tile_requests[m].url # tile_requests[k].url

\* ---------------------------------------------------- cropper properties
Cropped ==
    /\ call.fn = "crop_gpx_by_time"
    /\ ret.done
    /\ ret.value.raised = "none"

\* the positions, among the children of the segment, of its track points
PointPositions ==
    {p \in DOMAIN call.gpx.trkseg : call.gpx.trkseg[p].tag = "trkpt"}

HasTime(p) == call.gpx.trkseg[p].time.text = "time"

\* no track point with a time is nearer in time to the target than p, and
\* none as near comes before p
ClosestTo(p, target_dt) ==
    /\ p \in PointPositions
    /\ HasTime(p)
    /\ \A q \in PointPositions :
        HasTime(q) =>
            LET near == Abs(call.gpx.trkseg[p].time.seconds - target_dt)
                other == Abs(call.gpx.trkseg[q].time.seconds - target_dt)
            IN  other > near \/ (other = near /\ q >= p)

\* C22: crop_gpx_by_time keeps exactly the contiguous run of track points
\* from the point whose time is closest to start_dt to the point whose time
\* is closest to end_dt, both included and swapped when out of order, in
\* their original order; everything else in the segment is removed and at
\* least one point is kept
C22_CropKeepsRun ==
    Cropped =>
        \E a \in PointPositions, b \in PointPositions :
            /\ ClosestTo(a, call.start_dt)
            /\ ClosestTo(b, call.end_dt)
            /\ LET low == IF a > b THEN b ELSE a
                   high == IF a > b THEN a ELSE b
                   kept == {p \in PointPositions : low <= p /\ p <= high}
               IN  /\ {ret.value.trkseg[k].position :
                          k \in DOMAIN ret.value.trkseg} = kept
                   /\ Len(ret.value.trkseg) = Cardinality(kept)
                   /\ Len(ret.value.trkseg) >= 1
                   /\ \A k \in DOMAIN ret.value.trkseg :
                       /\ ret.value.trkseg[k].element
                              = call.gpx.trkseg[ret.value.trkseg[k].position]
                       /\ k > 1 => ret.value.trkseg[k - 1].position
                                       < ret.value.trkseg[k].position

\* a crop that swaps the two indices, keeps more than one point and
\* removes a track point
C22_Witness ==
    /\ Cropped
    /\ \E a \in PointPositions, b \in PointPositions :
        /\ ClosestTo(a, call.start_dt)
        /\ ClosestTo(b, call.end_dt)
        /\ a > b
    /\ Len(ret.value.trkseg) > 1
    /\ Len(ret.value.trkseg) < Cardinality(PointPositions)

\* request k went to the network and the download raised
DownloadFailed(k) ==
    /\ tile_requests[k].source = "network"
    /\ ~BroughtBytes(k)

\* request m is the first one after request k for the same URL
NextRequestFor(k, m) ==
    /\ k < m
    /\ tile_requests[m].url = tile_requests[k].url
    /\ \A i \in (k + 1)..(m - 1) : tile_requests[i].url # tile_requests[k].url

\* C28: a tile download that fails is not recorded in the tile cache: the
\* cache holds downloaded bytes only, never the placeholder, and the next
\* request for the URL, in the same or a later render, goes to the network
\* again
C28_FailuresNotCached ==
    /\ \A i \in DOMAIN tile_cache : tile_cache[i].data \in {"png", "garbage"}
    /\ \A k \in DOMAIN tile_requests :
        DownloadFailed(k) =>
            /\ tile_requests[k].failed
            /\ (k = Len(tile_requests)) =>
                   \A i \in DOMAIN tile_cache :
                       tile_cache[i].url # tile_requests[k].url
            /\ \A m \in DOMAIN tile_requests :
                   NextRequestFor(k, m) => tile_requests[m].source = "network"

\* a download failed in one render, was tried again and succeeded in the
\* next, and the render after that found the tile in the cache
C28_Witness ==
    \E k \in DOMAIN tile_requests : \E m \in DOMAIN tile_requests :
        /\ DownloadFailed(k)
        /\ NextRequestFor(k, m)
        /\ tile_requests[m].source = "network"
        /\ tile_requests[m].data = "png"
        /\ \E n \in DOMAIN tile_requests :
            /\ NextRequestFor(m, n)
            /\ tile_requests[n].source = "cache"

\* ------------------------------------------- concurrent cache properties
\* the cache holds no more entries than its capacity, one for a URL
CacheBounded ==
    /\ Len(tile_cache) <= MaxCachedTiles
    /\ \A i \in DOMAIN tile_cache : \A j \in DOMAIN tile_cache :
           tile_cache[i].url = tile_cache[j].url => i = j

\* an entry that stays in the cache keeps its bytes
EntriesKept ==
    \A i \in DOMAIN tile_cache : \A j \in DOMAIN tile_cache' :
        tile_cache[i].url = tile_cache'[j].url =>
            tile_cache[i].data = tile_cache'[j].data

\* a request answered from the cache got the bytes of the entry
CacheReadersAgree ==
    \A k \in DOMAIN tile_requests :
        tile_requests[k].source = "cache" =>
            tile_requests[k].data = tile_requests[k].entry

\* every request that got bytes got those of the entry the cache held for
\* the URL when the request ended
AllReadersAgree ==
    \A k \in DOMAIN tile_requests :
        (tile_requests[k].data # "" /\ tile_requests[k].entry # "") =>
            tile_requests[k].data = tile_requests[k].entry

\* C25 as the specification states it: with concurrent renders asking for
\* the same tile URL, an inserted entry is never replaced by a download that
\* ends later, every reader of the URL sees the same bytes, and the cache
\* never holds more entries than its capacity
C25_AsStated ==
    [](CacheBounded /\ AllReadersAgree) /\ [][EntriesKept]_vars

\* C25: with concurrent renders asking for the same tile URL, an inserted
\* entry is never replaced by a download that ends later, every request
\* answered from the cache sees the bytes of the entry (a render whose own
\* download ended after the insertion uses the bytes it downloaded), and
\* the cache never holds more entries than its capacity
C25_InsertOnceWins ==
    [](CacheBounded /\ CacheReadersAgree) /\ [][EntriesKept]_vars

\* two renders downloaded one URL at the same time; the second download to
\* end found the entry of the first, and a later request was answered from
\* the cache
C25_Witness ==
    /\ call.fn = "concurrent_renders"
    /\ \E j \in DOMAIN tile_requests : \E k \in DOMAIN tile_requests :
        /\ j < k
        /\ tile_requests[j].url = tile_requests[k].url
        /\ tile_requests[j].thread # tile_requests[k].thread
        /\ tile_requests[j].source = "network"
        /\ tile_requests[k].source = "network"
        /\ tile_requests[j].data # ""
        /\ tile_requests[k].data # ""
        /\ tile_requests[k].entry = tile_requests[j].data
    /\ \E k \in DOMAIN tile_requests : tile_requests[k].source = "cache"

====
